---- MODULE Spec2Model ----
(***************************************************************************)
(* Quota state store of Gas Town (package quota): the lock-guarded         *)
(* persistence of per-account quota status in mayor/quota.json, the        *)
(* rotation policy working on it and the reset-time grammar.               *)
(*                                                                         *)
(* Go strings are TLA+ strings; "" is the empty string.  A Go map is a     *)
(* record [isNil, kv] because a nil map and an empty map differ in Go.     *)
(* Instants are minutes since 2026-02-18T00:00 UTC.                        *)
(***************************************************************************)
EXTENDS Integers, Sequences, FiniteSets, TLC

\* ------------------------------------------------------------------ bounds
MaxCalls == 2
MaxTicks == 1

\* ------------------------------------------------------- model parameters
Procs == {"p1", "p2"}
NoProc == "none"
Handles == {"a", "b"}

ClockStart == 10 * 60
TickMinutes == 5 * 60
MinutesPerDay == 24 * 60

\* --------------------------------------------------- package config types
CurrentQuotaVersion == 1

QuotaStatusAvailable == "available"
QuotaStatusLimited == "limited"
QuotaStatusCooldown == "cooldown"

\* The zero value of config.AccountQuotaState.
ZeroAccount ==
  [Status |-> "", LimitedAt |-> "", ResetsAt |-> "", LastUsed |-> ""]

\* A map[string]config.AccountQuotaState: nil, or made.
NilMap == [isNil |-> TRUE, kv |-> <<>>]
MakeMap == [isNil |-> FALSE, kv |-> <<>>]

\* m[h] as an rvalue: the zero value when h is missing or m is nil.
MapGet(m, h) == IF h \in DOMAIN m.kv THEN m.kv[h] ELSE ZeroAccount

\* An assignment that updates tracked handles and ignores the others.
MapPutIfPresent(m, h, e) ==
  [isNil |-> FALSE,
   kv |-> [g \in DOMAIN m.kv |-> IF g = h THEN e ELSE m.kv[g]]]

\* m[h] = e on a made map.
MapPut(m, h, e) ==
  [isNil |-> FALSE,
   kv |-> [g \in (DOMAIN m.kv) \cup {h} |-> IF g = h THEN e ELSE m.kv[g]]]

\* The nil *config.QuotaState a failed Load returns.
NilState == [isNilState |-> TRUE]

\* ------------------------------------------------------------- time format
Pad2(n) == IF n < 10 THEN "0" \o ToString(n) ELSE ToString(n)

\* time.Time.UTC().Format(time.RFC3339) of the instant t.
RFC3339(t) ==
  "2026-02-" \o Pad2(18 + (t \div MinutesPerDay)) \o "T"
    \o Pad2((t % MinutesPerDay) \div 60) \o ":" \o Pad2(t % 60) \o ":00Z"

\* ------------------------------------------------- the persisted document
\* The quota file: missing, unreadable (os.ReadFile fails with an error other
\* than not-exist), bytes that do not parse, or a JSON document.  A
\* document may lack "version" or "accounts", "accounts" may be null, and an
\* account object may lack any of its keys.
MissingFile == [kind |-> "missing"]
GarbageFile == [kind |-> "garbage"]
UnreadableFile == [kind |-> "unreadable"]

\* json.Marshal of one config.AccountQuotaState.
MarshalAccount(e) ==
  [status |-> e.Status, limitedAt |-> e.LimitedAt,
   resetsAt |-> e.ResetsAt, lastUsed |-> e.LastUsed]

\* json.Unmarshal into one config.AccountQuotaState: a missing key leaves the
\* field at its zero value.
UnmarshalAccount(j) ==
  [Status |-> IF "status" \in DOMAIN j THEN j["status"] ELSE "",
   LimitedAt |-> IF "limitedAt" \in DOMAIN j THEN j["limitedAt"] ELSE "",
   ResetsAt |-> IF "resetsAt" \in DOMAIN j THEN j["resetsAt"] ELSE "",
   LastUsed |-> IF "lastUsed" \in DOMAIN j THEN j["lastUsed"] ELSE ""]

\* The document util.EnsureDirAndWriteJSON writes for a *config.QuotaState.
MarshalState(s) ==
  [kind |-> "json", hasVersion |-> TRUE, version |-> s.Version,
   accounts |-> IF s.Accounts.isNil THEN "null" ELSE "object",
   kv |-> [h \in DOMAIN s.Accounts.kv |-> MarshalAccount(s.Accounts.kv[h])]]

\* json.Unmarshal(data, &state) on a document that parses.
UnmarshalState(f) ==
  [Version |-> IF f.hasVersion THEN f.version ELSE 0,
   Accounts |-> IF f.accounts = "object"
                THEN [isNil |-> FALSE,
                      kv |-> [h \in DOMAIN f.kv |-> UnmarshalAccount(f.kv[h])]]
                ELSE NilMap]

\* A Load without the nil check on state.Accounts.
LoadKeepsNil(f) ==
  IF f.kind = "missing"
  THEN [state |-> [Version |-> CurrentQuotaVersion, Accounts |-> MakeMap],
        err |-> ""]
  ELSE IF f.kind = "unreadable"
  THEN [state |-> NilState, err |-> "reading quota state"]
  ELSE IF f.kind = "garbage"
  THEN [state |-> NilState, err |-> "parsing quota state"]
  ELSE [state |-> UnmarshalState(f), err |-> ""]

\* A Load that drops the json.Unmarshal error and returns the zero state.
LoadIgnoresParseError(f) ==
  IF f.kind = "missing"
  THEN [state |-> [Version |-> CurrentQuotaVersion, Accounts |-> MakeMap],
        err |-> ""]
  ELSE IF f.kind = "unreadable"
  THEN [state |-> NilState, err |-> "reading quota state"]
  ELSE IF f.kind = "garbage"
  THEN [state |-> [Version |-> 0, Accounts |-> MakeMap], err |-> ""]
  ELSE LET state == UnmarshalState(f)
       IN [state |-> IF state.Accounts.isNil
                     THEN [state EXCEPT !.Accounts = MakeMap]
                     ELSE state,
           err |-> ""]

\* Manager.Load as a function of the file content: (state, err).
Load(f) ==
  IF f.kind = "missing"
  THEN [state |-> [Version |-> CurrentQuotaVersion, Accounts |-> MakeMap],
        err |-> ""]
  ELSE IF f.kind = "unreadable"
  THEN [state |-> NilState, err |-> "reading quota state"]
  ELSE IF f.kind = "garbage"
  THEN [state |-> NilState, err |-> "parsing quota state"]
  ELSE LET state == UnmarshalState(f)
       IN [state |-> IF state.Accounts.isNil
                     THEN [state EXCEPT !.Accounts = MakeMap]
                     ELSE state,
           err |-> ""]

\* ------------------------------------------------------ reset-time grammar
\* The characters of each reset-time string the model uses (TLC cannot index
\* into a string).
Chars(str) ==
  CASE str = "" -> <<>>
    [] str = "7pm" -> <<"7", "p", "m">>
    [] str = "11am" -> <<"1", "1", "a", "m">>
    [] str = "11am (Z)" -> <<"1", "1", "a", "m", " ", "(", "Z", ")">>
    [] str = "9PM (Z)" -> <<"9", "P", "M", " ", "(", "Z", ")">>
    [] str = "3:30pm" -> <<"3", ":", "3", "0", "p", "m">>
    [] str = "12am" -> <<"1", "2", "a", "m">>
    [] str = "12pm" -> <<"1", "2", "p", "m">>
    [] str = "garbage" -> <<"g", "a", "r", "b", "a", "g", "e">>
    [] str = "2025-01-01T13:00:00Z" ->
         <<"2", "0", "2", "5", "-", "0", "1", "-", "0", "1", "T",
           "1", "3", ":", "0", "0", ":", "0", "0", "Z">>
    [] str = "7:00 PM PST" ->
         <<"7", ":", "0", "0", " ", "P", "M", " ", "P", "S", "T">>
    [] str = "2025-01-01T01:00:00Z" ->
         <<"2", "0", "2", "5", "-", "0", "1", "-", "0", "1", "T",
           "0", "1", ":", "0", "0", ":", "0", "0", "Z">>
    [] str = "2025-01-01T02:00:00Z" ->
         <<"2", "0", "2", "5", "-", "0", "1", "-", "0", "1", "T",
           "0", "2", ":", "0", "0", ":", "0", "0", "Z">>
    [] str = "2025-01-01T03:00:00Z" ->
         <<"2", "0", "2", "5", "-", "0", "1", "-", "0", "1", "T",
           "0", "3", ":", "0", "0", ":", "0", "0", "Z">>

Digits == <<"0", "1", "2", "3", "4", "5", "6", "7", "8", "9">>
Uppers ==
  <<"A", "B", "C", "D", "E", "F", "G", "H", "I", "J", "K", "L", "M",
    "N", "O", "P", "Q", "R", "S", "T", "U", "V", "W", "X", "Y", "Z">>
Lowers ==
  <<"a", "b", "c", "d", "e", "f", "g", "h", "i", "j", "k", "l", "m",
    "n", "o", "p", "q", "r", "s", "t", "u", "v", "w", "x", "y", "z">>

IsDigit(c) == \E i \in 1..10 : Digits[i] = c
DigitVal(c) == (CHOOSE i \in 1..10 : Digits[i] = c) - 1
IsSpace(c) == c \in {" ", "\t", "\n", "\r"}
\* regexp \w
IsWord(c) ==
  IsDigit(c) \/ c = "_" \/ \E i \in 1..26 : Uppers[i] = c \/ Lowers[i] = c
ToLower(c) ==
  IF \E i \in 1..26 : Uppers[i] = c
  THEN Lowers[CHOOSE i \in 1..26 : Uppers[i] = c]
  ELSE c

\* strings.TrimSpace
TrimSpace(s) ==
  LET keep == {i \in 1..Len(s) : ~IsSpace(s[i])}
  IN IF keep = {} THEN <<>>
     ELSE SubSeq(s, CHOOSE i \in keep : \A j \in keep : i <= j,
                    CHOOSE i \in keep : \A j \in keep : j <= i)

\* strings.Index(s, c) + 1: the 1-based position of the first c, 0 if none.
IndexOf(s, c) ==
  LET at == {i \in 1..Len(s) : s[i] = c}
  IN IF at = {} THEN 0 ELSE CHOOSE i \in at : \A j \in at : i <= j

\* time.LoadLocation on the names the model knows: the offset from UTC in
\* minutes.  "Local" is the location of time.Now().
\* (The empty name loads as UTC.)
ZoneNames == {<<"Z">>, <<"U", "T", "C">>, <<>>}
ZoneOffset(name) ==
  CASE name = <<"Z">> -> 0 - 8 * 60
    [] name = <<"U", "T", "C">> -> 0
    [] name = <<>> -> 0
LocalOffset == 0

\* The pattern without its closing \b.
MatchResetTimeNoBoundary(s) ==
  LET n == Len(s)
      dig(i) == i <= n /\ IsDigit(s[i])
      nh == IF dig(1) /\ dig(2) THEN 2 ELSE IF dig(1) THEN 1 ELSE 0
      hasMin == nh + 1 <= n /\ s[nh + 1] = ":" /\ dig(nh + 2) /\ dig(nh + 3)
      p2 == IF hasMin THEN nh + 4 ELSE nh + 1
      rest == {i \in p2..(n + 1) : i = n + 1 \/ ~IsSpace(s[i])}
      p3 == CHOOSE i \in rest : \A j \in rest : i <= j
      ok == /\ nh > 0
            /\ p3 + 1 <= n
            /\ ToLower(s[p3]) \in {"a", "p"}
            /\ ToLower(s[p3 + 1]) = "m"
  IN IF ~ok THEN [ok |-> FALSE]
     ELSE [ok |-> TRUE,
           hour |-> IF nh = 2 THEN 10 * DigitVal(s[1]) + DigitVal(s[2])
                    ELSE DigitVal(s[1]),
           minute |-> IF hasMin
                      THEN 10 * DigitVal(s[nh + 2]) + DigitVal(s[nh + 3])
                      ELSE 0,
           ampm |-> ToLower(s[p3]) \o "m"]

\* parseResetTimePattern, (?i)^(\d{1,2})(?::(\d{2}))?\s*(am|pm)\b, on s:
\* the groups of the match, or ok = FALSE.
MatchResetTime(s) ==
  LET n == Len(s)
      dig(i) == i <= n /\ IsDigit(s[i])
      nh == IF dig(1) /\ dig(2) THEN 2 ELSE IF dig(1) THEN 1 ELSE 0
      hasMin == nh + 1 <= n /\ s[nh + 1] = ":" /\ dig(nh + 2) /\ dig(nh + 3)
      p2 == IF hasMin THEN nh + 4 ELSE nh + 1
      rest == {i \in p2..(n + 1) : i = n + 1 \/ ~IsSpace(s[i])}
      p3 == CHOOSE i \in rest : \A j \in rest : i <= j
      ok == /\ nh > 0
            /\ p3 + 1 <= n
            /\ ToLower(s[p3]) \in {"a", "p"}
            /\ ToLower(s[p3 + 1]) = "m"
            /\ (p3 + 2 > n \/ ~IsWord(s[p3 + 2]))
  IN IF ~ok THEN [ok |-> FALSE]
     ELSE [ok |-> TRUE,
           hour |-> IF nh = 2 THEN 10 * DigitVal(s[1]) + DigitVal(s[2])
                    ELSE DigitVal(s[1]),
           minute |-> IF hasMin
                      THEN 10 * DigitVal(s[nh + 2]) + DigitVal(s[nh + 3])
                      ELSE 0,
           ampm |-> ToLower(s[p3]) \o "m"]

\* A parse that adds twelve hours for pm and leaves am hours as written.
ParseResetTimeNoMidnight(s, reference) ==
  LET s0 == TrimSpace(s)
      idx == IndexOf(s0, "(")
      end == IndexOf(s0, ")")
      hasTz == idx # 0 /\ end > idx
      tzName == TrimSpace(SubSeq(s0, idx + 1, end - 1))
      off == IF hasTz /\ tzName \in ZoneNames THEN ZoneOffset(tzName)
             ELSE reference.off
      s1 == IF hasTz THEN TrimSpace(SubSeq(s0, 1, idx - 1)) ELSE s0
      m == MatchResetTime(s1)
      hour == IF m.ampm = "pm" /\ m.hour # 12 THEN m.hour + 12 ELSE m.hour
      day == (reference.t + off) \div MinutesPerDay
  IN IF ~m.ok THEN [ok |-> FALSE]
     ELSE [ok |-> TRUE,
           t |-> day * MinutesPerDay + hour * 60 + m.minute - off]

\* ParseResetTime on the characters s of the string: reference is [t, off],
\* an instant and the UTC offset of its location; the result is the instant,
\* or ok = FALSE.  time.Date normalises an hour or minute beyond its range
\* into the following hours and days.
ParseResetTimeOf(s, reference) ==
  LET s0 == TrimSpace(s)
      idx == IndexOf(s0, "(")
      end == IndexOf(s0, ")")
      hasTz == idx # 0 /\ end > idx
      tzName == TrimSpace(SubSeq(s0, idx + 1, end - 1))
      off == IF hasTz /\ tzName \in ZoneNames THEN ZoneOffset(tzName)
             ELSE reference.off
      s1 == IF hasTz THEN TrimSpace(SubSeq(s0, 1, idx - 1)) ELSE s0
      m == MatchResetTime(s1)
      hour == IF m.ampm = "pm" /\ m.hour # 12 THEN m.hour + 12
              ELSE IF m.ampm = "am" /\ m.hour = 12 THEN 0
              ELSE m.hour
      day == (reference.t + off) \div MinutesPerDay
  IN IF ~m.ok THEN [ok |-> FALSE]
     ELSE [ok |-> TRUE,
           t |-> day * MinutesPerDay + hour * 60 + m.minute - off]

\* ParseResetTime(resetsAt, reference) on a string of the model.
ParseResetTime(resetsAt, reference) ==
  ParseResetTimeOf(Chars(resetsAt), reference)

\* ---------------------------------------------------------- rotation policy
\* A sweep that also clears at the reset instant itself.
ExpiredHandlesAtReset(state, now) ==
  {h \in DOMAIN state.Accounts.kv :
     LET acctState == state.Accounts.kv[h]
     IN /\ acctState.Status = QuotaStatusLimited
        /\ acctState.ResetsAt # ""
        /\ ParseResetTime(acctState.ResetsAt, now).ok
        /\ now.t >= ParseResetTime(acctState.ResetsAt, now).t}

\* A sweep that does not look at the status.
ExpiredHandlesAnyStatus(state, now) ==
  {h \in DOMAIN state.Accounts.kv :
     LET acctState == state.Accounts.kv[h]
     IN /\ acctState.ResetsAt # ""
        /\ ParseResetTime(acctState.ResetsAt, now).ok
        /\ now.t > ParseResetTime(acctState.ResetsAt, now).t}

\* The handles clearExpiredAt transitions to available.
ExpiredHandles(state, now) ==
  {h \in DOMAIN state.Accounts.kv :
     LET acctState == state.Accounts.kv[h]
     IN /\ acctState.Status = QuotaStatusLimited
        /\ acctState.ResetsAt # ""
        /\ ParseResetTime(acctState.ResetsAt, now).ok
        /\ now.t > ParseResetTime(acctState.ResetsAt, now).t}

\* A sweep that resets the whole entry, LastUsed included.
clearExpiredAtDropsLastUsed(state, now) ==
  [state EXCEPT !.Accounts.kv =
     [h \in DOMAIN state.Accounts.kv |->
        IF h \in ExpiredHandles(state, now)
        THEN [Status |-> QuotaStatusAvailable, LimitedAt |-> "",
              ResetsAt |-> "", LastUsed |-> ""]
        ELSE state.Accounts.kv[h]]]

\* A sweep that deletes the entries it finds expired.
clearExpiredAtDeletes(state, now) ==
  [state EXCEPT !.Accounts.kv =
     [h \in (DOMAIN state.Accounts.kv) \ ExpiredHandles(state, now) |->
        state.Accounts.kv[h]]]

\* clearExpiredAt(_, state, now): the mutated state (the count it returns is
\* Cardinality(ExpiredHandles(state, now))).
clearExpiredAt(state, now) ==
  [state EXCEPT !.Accounts.kv =
     [h \in DOMAIN state.Accounts.kv |->
        IF h \in ExpiredHandles(state, now)
        THEN [Status |-> QuotaStatusAvailable, LimitedAt |-> "",
              ResetsAt |-> "", LastUsed |-> state.Accounts.kv[h].LastUsed]
        ELSE state.Accounts.kv[h]]]

\* A tracking step that resets every registered handle.
EnsureAccountsTrackedResets(state, accounts) ==
  [state EXCEPT !.Accounts.kv =
     [h \in (DOMAIN state.Accounts.kv) \cup accounts |->
        IF h \notin accounts THEN state.Accounts.kv[h]
        ELSE [Status |-> QuotaStatusAvailable, LimitedAt |-> "",
              ResetsAt |-> "", LastUsed |-> ""]]]

\* EnsureAccountsTracked(state, accounts): accounts is the set of registered
\* handles.
EnsureAccountsTracked(state, accounts) ==
  [state EXCEPT !.Accounts.kv =
     [h \in (DOMAIN state.Accounts.kv) \cup accounts |->
        IF h \in DOMAIN state.Accounts.kv THEN state.Accounts.kv[h]
        ELSE [Status |-> QuotaStatusAvailable, LimitedAt |-> "",
              ResetsAt |-> "", LastUsed |-> ""]]]

\* The byte of a character, for the characters timestamps are made of.
Byte(c) ==
  CASE IsDigit(c) -> 48 + DigitVal(c)
    [] c = "-" -> 45
    [] c = ":" -> 58
    [] c = "T" -> 84
    [] c = "Z" -> 90

\* Go's a > b on strings: bytewise lexicographic, a proper prefix is less.
StringGreater(a, b) ==
  LET x == Chars(a)
      y == Chars(b)
      n == IF Len(x) < Len(y) THEN Len(x) ELSE Len(y)
      diff == {i \in 1..n : x[i] # y[i]}
  IN IF diff = {} THEN Len(x) > Len(y)
     ELSE LET i == CHOOSE k \in diff : \A j \in diff : k <= j
          IN Byte(x[i]) > Byte(y[i])

\* The inner loop of sortByLastUsed: handles[j+1] = handles[j] while
\* handles[j] was used later than key, then handles[j+1] = key.  (Positions
\* are 1-based here: j is the code's j + 1.)
RECURSIVE InsertKey(_, _, _, _)
InsertKey(handles, j, key, state) ==
  IF j >= 1 /\ StringGreater(MapGet(state.Accounts, handles[j]).LastUsed,
                             MapGet(state.Accounts, key).LastUsed)
  THEN InsertKey([handles EXCEPT ![j + 1] = handles[j]], j - 1, key, state)
  ELSE [handles EXCEPT ![j + 1] = key]

\* The outer loop of sortByLastUsed from position i on.
RECURSIVE SortFrom(_, _, _)
SortFrom(handles, i, state) ==
  IF i > Len(handles) THEN handles
  ELSE SortFrom(InsertKey(handles, i - 1, handles[i], state), i + 1, state)

\* A sort that leaves the handles in the order of the map iteration.
sortByLastUsedSkipped(handles, state) == handles

\* sortByLastUsed(handles, state): the slice after the insertion sort.
sortByLastUsed(handles, state) == SortFrom(handles, 2, state)

\* The orders in which a range over state.Accounts can visit the handles.
MapOrders(state) ==
  LET keys == DOMAIN state.Accounts.kv
      n == Cardinality(keys)
  IN {o \in [1..n -> keys] : \A i, j \in 1..n : o[i] = o[j] => i = j}

\* AvailableAccounts(state), when the range visits the handles in order keys.
AvailableAccounts(state, keys) ==
  LET notLimited(handle) ==
        LET acctState == state.Accounts.kv[handle]
        IN acctState.Status = QuotaStatusAvailable \/ acctState.Status = ""
  IN sortByLastUsed(SelectSeq(keys, notLimited), state)

\* A LimitedAccounts that takes every account that is not available.
LimitedAccountsNotAvailable(state, keys) ==
  LET limited(handle) ==
        state.Accounts.kv[handle].Status \notin {QuotaStatusAvailable, ""}
  IN SelectSeq(keys, limited)

\* LimitedAccounts(state), when the range visits the handles in order keys.
LimitedAccounts(state, keys) ==
  LET limited(handle) ==
        state.Accounts.kv[handle].Status = QuotaStatusLimited
  IN SelectSeq(keys, limited)

\* ------------------------------------------------------ credential rotator
\* keychainServiceBase and defaultClaudeConfigDir.
keychainServiceBase == "Claude Code-credentials"
defaultClaudeConfigDir == <<".", "c", "l", "a", "u", "d", "e">>

\* os.UserHomeDir(): the home directory of the user, or no answer when the
\* environment does not name one.
HomeDir == <<"/", "U", "s", "e", "r", "s", "/", "u">>
NoHome == <<"no home">>
Homes == {HomeDir, NoHome}

\* Config dir paths callers pass: the default one and another one, each
\* written with ~/ and in full, and two paths X and Y that stand for a pair
\* of paths whose SHA-256 digests agree in their first four bytes (the
\* service name keeps 32 bits of the digest and there are more paths than
\* that, so such pairs exist).
DefaultTilde == <<"~", "/", ".", "c", "l", "a", "u", "d", "e">>
DefaultFull ==
  <<"/", "U", "s", "e", "r", "s", "/", "u", "/", ".", "c", "l", "a", "u",
    "d", "e">>
WorkTilde ==
  <<"~", "/", ".", "c", "l", "a", "u", "d", "e", "-", "w", "o", "r", "k">>
WorkFull ==
  <<"/", "U", "s", "e", "r", "s", "/", "u", "/", ".", "c", "l", "a", "u",
    "d", "e", "-", "w", "o", "r", "k">>
PathX ==
  <<"/", "U", "s", "e", "r", "s", "/", "u", "/", ".", "c", "l", "a", "u",
    "d", "e", "-", "x">>
PathY ==
  <<"/", "U", "s", "e", "r", "s", "/", "u", "/", ".", "c", "l", "a", "u",
    "d", "e", "-", "y">>
ConfigDirs == {DefaultTilde, DefaultFull, WorkTilde, WorkFull, PathX, PathY}

\* An expansion that leaves every path as written.
expandTildeNever(path, home) == path

\* expandTilde(path), in an environment whose home directory is home.
expandTilde(path, home) ==
  IF Len(path) >= 2 /\ SubSeq(path, 1, 2) = <<"~", "/">> /\ home # NoHome
  THEN home \o SubSeq(path, 2, Len(path))
  ELSE path

\* fmt.Sprintf("%x", h[:4]) for h = sha256.Sum256(expanded): the digest is
\* kept abstract, one name per value.
Sha256Prefix(expanded) ==
  CASE expanded = DefaultTilde -> "sha(~/.claude)"
    [] expanded = DefaultFull -> "sha(/Users/u/.claude)"
    [] expanded = WorkTilde -> "sha(~/.claude-work)"
    [] expanded = WorkFull -> "sha(/Users/u/.claude-work)"
    [] expanded = PathX -> "sha(X)=sha(Y)"
    [] expanded = PathY -> "sha(X)=sha(Y)"

\* KeychainServiceName(configDirPath), in an environment whose home
\* directory is home.
KeychainServiceName(configDirPath, home) ==
  LET expanded == expandTilde(configDirPath, home)
  IN IF home # NoHome /\ expanded = home \o <<"/">> \o defaultClaudeConfigDir
     THEN keychainServiceBase
     ELSE keychainServiceBase \o "-" \o Sha256Prefix(expanded)

\* The keychain maps each service name to the stored password, or to NoEntry.
NoEntry == <<"no entry">>

\* A read that returns the output of security as it is.
ReadKeychainTokenRaw(kc, serviceName) ==
  IF kc[serviceName] = NoEntry
  THEN [token |-> <<>>, err |-> "reading keychain token"]
  ELSE [token |-> kc[serviceName] \o <<"\n">>, err |-> ""]

\* A read that answers with an empty token when there is no entry.
ReadKeychainTokenOrEmpty(kc, serviceName) ==
  IF kc[serviceName] = NoEntry THEN [token |-> <<>>, err |-> ""]
  ELSE [token |-> TrimSpace(kc[serviceName] \o <<"\n">>), err |-> ""]

\* ReadKeychainToken(serviceName) on keychain kc: security prints the
\* password and a newline; the output is trimmed.
ReadKeychainToken(kc, serviceName) ==
  IF kc[serviceName] = NoEntry
  THEN [token |-> <<>>, err |-> "reading keychain token"]
  ELSE [token |-> TrimSpace(kc[serviceName] \o <<"\n">>), err |-> ""]

\* The nil *KeychainCredential, and &KeychainCredential{...}.
NilBackup == [isNil |-> TRUE]
KeychainCredential(serviceName, token) ==
  [isNil |-> FALSE, ServiceName |-> serviceName, Token |-> token]

\* .claude.json of a config dir: no file, a file that cannot be read, a file
\* that is not JSON, or a JSON object given by its fields (name -> raw value).
MissingDoc == [kind |-> "missing"]
UnreadableDoc == [kind |-> "unreadable"]
GarbageDoc == [kind |-> "garbage"]
JsonDoc(fields) == [kind |-> "json", fields |-> fields]

\* The nil json.RawMessage, and a raw value.
NilRaw == [isNil |-> TRUE]
Raw(value) == [isNil |-> FALSE, raw |-> value]

\* doc[name], nil when the object has no such field.
FieldOf(doc, name) ==
  IF name \in DOMAIN doc.fields THEN Raw(doc.fields[name]) ELSE NilRaw

\* doc[name] = value
SetField(doc, name, value) ==
  JsonDoc([n \in (DOMAIN doc.fields) \cup {name} |->
             IF n = name THEN value ELSE doc.fields[n]])

\* os.WriteFile(path, out, 0600): the file is replaced; or it cannot be
\* opened and stays; or the write fails after the file was truncated.
WriteOutcomes == {"written", "not opened", "partial"}
WriteFile(d, path, doc, outcome) ==
  CASE outcome = "written" -> [d EXCEPT ![path] = doc]
    [] outcome = "not opened" -> d
    [] outcome = "partial" -> [d EXCEPT ![path] = GarbageDoc]

\* The path of the config dir holding .claude.json, the home directory
\* being known.
ClaudeJson(configDir) == expandTilde(configDir, HomeDir)

\* A swap that replaces the target's document by the source's.
SwapOAuthAccountWholeDoc(d, targetConfigDir, sourceConfigDir, outcome) ==
  LET targetPath == ClaudeJson(targetConfigDir)
      sourcePath == ClaudeJson(sourceConfigDir)
      fail(msg) == [docs |-> d, backup |-> NilRaw, err |-> msg]
  IN IF d[targetPath].kind # "json" \/ d[sourcePath].kind # "json"
     THEN fail("")
     ELSE [docs |-> [d EXCEPT ![targetPath] = d[sourcePath]],
           backup |-> FieldOf(d[targetPath], "oauthAccount"), err |-> ""]

\* SwapOAuthAccount(targetConfigDir, sourceConfigDir) on documents d: the
\* documents left behind, the returned backup and the error.
SwapOAuthAccount(d, targetConfigDir, sourceConfigDir, outcome) ==
  LET targetPath == ClaudeJson(targetConfigDir)
      sourcePath == ClaudeJson(sourceConfigDir)
      fail(msg) == [docs |-> d, backup |-> NilRaw, err |-> msg]
  IN CASE d[targetPath] = MissingDoc -> fail("")
       [] d[sourcePath] = MissingDoc -> fail("")
       [] d[sourcePath] = UnreadableDoc -> fail("reading source .claude.json")
       [] d[sourcePath] = GarbageDoc -> fail("parsing source .claude.json")
       [] "oauthAccount" \notin DOMAIN d[sourcePath].fields ->
            fail("source .claude.json has no oauthAccount")
       [] d[targetPath] = UnreadableDoc -> fail("reading target .claude.json")
       [] d[targetPath] = GarbageDoc -> fail("parsing target .claude.json")
       [] OTHER ->
            LET targetDoc == SetField(d[targetPath], "oauthAccount",
                                      d[sourcePath].fields["oauthAccount"])
            IN [docs |-> WriteFile(d, targetPath, targetDoc, outcome),
                backup |-> IF outcome = "written"
                           THEN FieldOf(d[targetPath], "oauthAccount")
                           ELSE NilRaw,
                err |-> IF outcome = "written" THEN ""
                        ELSE "writing target .claude.json"]

\* A restore that reads the document before it looks at the backup.
RestoreOAuthAccountReadsFirst(d, targetConfigDir, backup, outcome) ==
  LET targetPath == ClaudeJson(targetConfigDir)
  IN CASE d[targetPath] \in {MissingDoc, UnreadableDoc} ->
            [docs |-> d, err |-> "reading target .claude.json"]
       [] d[targetPath] = GarbageDoc ->
            [docs |-> d, err |-> "parsing target .claude.json"]
       [] backup = NilRaw -> [docs |-> d, err |-> ""]
       [] OTHER ->
            [docs |-> WriteFile(d, targetPath,
                                SetField(d[targetPath], "oauthAccount",
                                         backup.raw), outcome),
             err |-> IF outcome = "written" THEN ""
                     ELSE "writing target .claude.json"]

\* RestoreOAuthAccount(targetConfigDir, backup) on documents d.
RestoreOAuthAccount(d, targetConfigDir, backup, outcome) ==
  LET targetPath == ClaudeJson(targetConfigDir)
  IN CASE backup = NilRaw -> [docs |-> d, err |-> ""]
       [] d[targetPath] \in {MissingDoc, UnreadableDoc} ->
            [docs |-> d, err |-> "reading target .claude.json"]
       [] d[targetPath] = GarbageDoc ->
            [docs |-> d, err |-> "parsing target .claude.json"]
       [] OTHER ->
            [docs |-> WriteFile(d, targetPath,
                                SetField(d[targetPath], "oauthAccount",
                                         backup.raw), outcome),
             err |-> IF outcome = "written" THEN ""
                     ELSE "writing target .claude.json"]

\* ------------------------------------------------------- token validation
\* A secret is a sequence of characters and JSON lexemes: the keys and the
\* string value below stand for the quoted strings they spell.
KeyExpiresAt == "\"expires_at\""
KeyExp == "\"exp\""
KeyOther == "\"sub\""
JSONKeys == {KeyExpiresAt, KeyExp, KeyOther}
StringValue == "\"x\""

\* The value of a run of decimal digits.
RECURSIVE NumVal(_)
NumVal(ds) ==
  IF ds = <<>> THEN 0
  ELSE NumVal(SubSeq(ds, 1, Len(ds) - 1)) * 10 + DigitVal(ds[Len(ds)])

\* JSON numbers: an integer, or an integer with a fraction.
IsDigits(ds) == ds # <<>> /\ \A i \in 1..Len(ds) : IsDigit(ds[i])
IsNatural(v) == IsDigits(v) /\ (Len(v) = 1 \/ v[1] # "0")
IsInteger(v) ==
  IsNatural(v) \/ (Len(v) >= 2 /\ v[1] = "-" /\ IsNatural(Tail(v)))
IntegerVal(v) == IF v[1] = "-" THEN 0 - NumVal(Tail(v)) ELSE NumVal(v)
IsFraction(v) ==
  \E i \in 2..(Len(v) - 1) :
    /\ v[i] = "."
    /\ IsInteger(SubSeq(v, 1, i - 1))
    /\ IsDigits(SubSeq(v, i + 1, Len(v)))
IsJSONValue(v) ==
  IsInteger(v) \/ IsFraction(v) \/ v = <<StringValue>> \/ v = <<"null">>

\* json.Unmarshal(raw, &struct{ N int64 `json:"<key>"` }): whether it
\* fails, whether the key is there with a number, and N.  Objects have at
\* most one member.
UnmarshalInt64(raw, key) ==
  LET fails == [err |-> TRUE, present |-> FALSE, value |-> 0]
      zero == [err |-> FALSE, present |-> FALSE, value |-> 0]
  IN CASE raw = <<"null">> -> zero
       [] raw = <<"{", "}">> -> zero
       [] /\ Len(raw) >= 5
          /\ raw[1] = "{" /\ raw[2] \in JSONKeys /\ raw[3] = ":"
          /\ raw[Len(raw)] = "}"
          /\ IsJSONValue(SubSeq(raw, 4, Len(raw) - 1)) ->
            LET v == SubSeq(raw, 4, Len(raw) - 1)
            IN CASE raw[2] # key -> zero
                 [] v = <<"null">> -> zero
                 [] IsInteger(v) ->
                      [err |-> FALSE, present |-> TRUE,
                       value |-> IntegerVal(v)]
                 [] OTHER -> fails
       [] OTHER -> fails

\* strings.Split(raw, "."): the number of parts, and parts[1] of three.
Dots(raw) == {i \in 1..Len(raw) : raw[i] = "."}
PartCount(raw) == Cardinality(Dots(raw)) + 1
MiddlePart(raw) ==
  LET first == CHOOSE i \in Dots(raw) : \A j \in Dots(raw) : i <= j
      second == CHOOSE i \in Dots(raw) : \A j \in Dots(raw) : j <= i
  IN SubSeq(raw, first + 1, second - 1)

\* base64.RawURLEncoding: Base64(c) is the encoding of c; a part decodes
\* when every element of it is an encoding.
Base64Plain == {"{", "}", ":", "-", KeyExp, KeyOther} \cup
               {Digits[i] : i \in 1..10}
Base64(c) == "~" \o c
Base64Of(cs) == [i \in 1..Len(cs) |-> Base64(cs[i])]
DecodeString(part) ==
  IF \A i \in 1..Len(part) : \E c \in Base64Plain : part[i] = Base64(c)
  THEN [err |-> FALSE,
        out |-> [i \in 1..Len(part) |->
                   CHOOSE c \in Base64Plain : part[i] = Base64(c)]]
  ELSE [err |-> TRUE, out |-> <<>>]

\* What the API answers to the probe: 401, another status, a network error
\* or no answer within the client's timeout.
ProbeOutcomes == {"401", "other status", "network error", "timeout"}

\* validateTokenHTTP(token), the remote end answering with probe.
validateTokenHTTP(probe) ==
  IF probe = "401" THEN "token rejected by API (HTTP 401)" ELSE ""

\* A validation that asks the API whenever the expiry it finds has not
\* passed.
ValidateKeychainTokenAlwaysProbes(kc, serviceName, now, probe) ==
  LET read == ReadKeychainToken(kc, serviceName)
      raw == read.token
      cred == UnmarshalInt64(raw, KeyExpiresAt)
  IN CASE read.err # "" -> [err |-> "", probed |-> FALSE]
       [] raw = <<>> -> [err |-> "", probed |-> FALSE]
       [] ~cred.err /\ cred.value > 0 /\ now >= cred.value ->
            [err |-> "token expired", probed |-> FALSE]
       [] OTHER -> [err |-> validateTokenHTTP(probe), probed |-> TRUE]

\* A validation that rejects whatever it cannot read.
ValidateKeychainTokenFailClosed(kc, serviceName, now, probe) ==
  LET read == ReadKeychainToken(kc, serviceName)
  IN IF read.err # "" \/ read.token = <<>>
     THEN [err |-> "token unreadable", probed |-> FALSE]
     ELSE [err |-> validateTokenHTTP(probe), probed |-> TRUE]

\* ValidateKeychainToken at Unix time now: the error returned and whether
\* the probe was sent.
ValidateKeychainToken(kc, serviceName, now, probe) ==
  LET read == ReadKeychainToken(kc, serviceName)
      raw == read.token
      cred == UnmarshalInt64(raw, KeyExpiresAt)
      payload == DecodeString(MiddlePart(raw))
      claims == UnmarshalInt64(payload.out, KeyExp)
  IN CASE read.err # "" -> [err |-> "", probed |-> FALSE]
       [] raw = <<>> -> [err |-> "", probed |-> FALSE]
       [] ~cred.err /\ cred.value > 0 ->
            [err |-> IF now >= cred.value THEN "token expired" ELSE "",
             probed |-> FALSE]
       [] /\ PartCount(raw) = 3 /\ ~payload.err
          /\ ~claims.err /\ claims.value > 0 ->
            [err |-> IF now >= claims.value THEN "JWT expired" ELSE "",
             probed |-> FALSE]
       [] OTHER -> [err |-> validateTokenHTTP(probe), probed |-> TRUE]

\* ------------------------------------------------------------------- state
VARIABLES
  file,        \* content of mayor/quota.json
  lockHolder,  \* the process whose descriptor holds the flock on quota.lock
  clock,       \* time.Now(), an instant
  calls,       \* number of calls started so far
  pc,          \* per process: position in the running call
  call,        \* per process: the running call and its arguments
  st,          \* per process: the *config.QuotaState the call has loaded
  err,         \* per process: the error the call is about to return
  deferred,    \* per process: whether a deferred unlock() is pending
  ret,         \* per process: what the last finished call returned
  keychain,    \* the login keychain: service name -> stored password
  docs,        \* per config dir: the content of its .claude.json
  sessions,    \* the names of the live tmux sessions
  polecats     \* per polecat name: its directory and state.json

vars ==
  <<file, lockHolder, clock, calls, pc, call, st, err, deferred, ret,
    keychain, docs, sessions, polecats>>

\* A keychain without entries, and no config dir with a .claude.json.
NoKeychain == <<>>
NoDocs == <<>>
NoSessions == {}
NoPolecats == <<>>

\* ------------------------------------------------------------------ inputs
NoFn == [kind |-> "none", handle |-> "", entry |-> ZeroAccount]
NoCall ==
  [op |-> "none", handle |-> "", resetsAt |-> "", state |-> NilState,
   fn |-> NoFn]
NoRet == [op |-> "none", err |-> "", state |-> NilState, locked |-> FALSE]

\* Reset strings callers pass to MarkLimited.
ResetInputs == {"7pm", "garbage"}

\* Quota files found at start: none, bytes that do not parse, a file that
\* cannot be read, a document
\* written before the version and accounts fields existed, and a populated
\* document whose entries rely on omitted keys.
LegacyFile ==
  [kind |-> "json", hasVersion |-> FALSE, version |-> 0,
   accounts |-> "absent", kv |-> <<>>]
SeedFile ==
  [kind |-> "json", hasVersion |-> TRUE, version |-> CurrentQuotaVersion,
   accounts |-> "object",
   kv |-> [h \in Handles |->
             IF h = "a"
             THEN [status |-> QuotaStatusLimited,
                   limitedAt |-> "2026-02-18T09:00:00Z",
                   resetsAt |-> "11am",
                   lastUsed |-> "2026-02-18T08:00:00Z"]
             ELSE [status |-> QuotaStatusCooldown,
                   lastUsed |-> "2026-02-18T07:00:00Z"]]]
InitFiles == {MissingFile, GarbageFile, UnreadableFile, LegacyFile, SeedFile}

\* States callers pass to Save: a zero-value state with a nil map, and a
\* state stamped with a foreign version.
SaveArgs ==
  {[Version |-> 0, Accounts |-> NilMap],
   [Version |-> 7,
    Accounts |-> [isNil |-> FALSE,
                  kv |-> [h \in {"b"} |->
                            [Status |-> "", LimitedAt |-> "",
                             ResetsAt |-> "9PM (Z)",
                             LastUsed |-> "2026-02-18T06:00:00Z"]]]],
   [Version |-> CurrentQuotaVersion,
    Accounts |-> [isNil |-> FALSE,
                  kv |-> [h \in Handles |->
                            IF h = "a"
                            THEN [Status |-> QuotaStatusAvailable,
                                  LimitedAt |-> "", ResetsAt |-> "",
                                  LastUsed |-> "2025-01-01T00:00:00Z"]
                            ELSE [Status |-> QuotaStatusLimited,
                                  LimitedAt |-> "2025-01-01T12:00:00Z",
                                  ResetsAt |-> "2025-01-01T13:00:00Z",
                                  LastUsed |-> ""]]]]}

\* Callbacks callers pass to WithLock: the sweep (Load, ClearExpired,
\* SaveUnlocked), the scan's tracking step (Load, EnsureAccountsTracked,
\* SaveUnlocked), a plain read-modify-write of one entry, and a callback
\* that fails at once.
Callbacks ==
  {[kind |-> "clearExpired", handle |-> "", entry |-> ZeroAccount],
   [kind |-> "ensureTracked", handle |-> "", entry |-> ZeroAccount],
   [kind |-> "set", handle |-> "a",
    entry |-> [Status |-> QuotaStatusLimited, LimitedAt |-> "",
               ResetsAt |-> "", LastUsed |-> "2025-01-01T00:00:00Z"]],
   [kind |-> "fail", handle |-> "", entry |-> ZeroAccount]}

\* A callback that persists through Save, the variant that takes the lock
\* itself, instead of SaveUnlocked.
SaveCallbacks ==
  {[kind |-> "save", handle |-> "b",
    entry |-> [Status |-> QuotaStatusAvailable, LimitedAt |-> "",
               ResetsAt |-> "", LastUsed |-> "2025-01-01T00:00:00Z"]]}

Now == [t |-> clock, off |-> LocalOffset]

\* What a WithLock callback does to the state it loaded.
Mutate(fn, state) ==
  CASE fn.kind = "clearExpired" -> clearExpiredAt(state, Now)
    [] fn.kind = "ensureTracked" -> EnsureAccountsTracked(state, Handles)
    [] fn.kind \in {"set", "save"} ->
         [state EXCEPT !.Accounts = MapPut(state.Accounts, fn.handle,
                                           fn.entry)]
    [] fn.kind = "saving" -> state

\* ------------------------------------------------------------------- Init
Init ==
  /\ file \in InitFiles
  /\ lockHolder = NoProc
  /\ clock = ClockStart
  /\ calls = 0
  /\ pc = [p \in Procs |-> "idle"]
  /\ call = [p \in Procs |-> NoCall]
  /\ st = [p \in Procs |-> NilState]
  /\ err = [p \in Procs |-> ""]
  /\ deferred = [p \in Procs |-> FALSE]
  /\ ret = [p \in Procs |-> NoRet]
  /\ keychain = NoKeychain
  /\ docs = NoDocs
  /\ sessions = NoSessions
  /\ polecats = NoPolecats

\* ----------------------------------------------------------------- actions
\* A process starts a call: pos is where the call begins.
Start(p, c, pos) ==
  /\ calls < MaxCalls
  /\ calls' = calls + 1
  /\ pc' = [pc EXCEPT ![p] = pos]
  /\ call' = [call EXCEPT ![p] = c]
  /\ UNCHANGED <<file, lockHolder, clock, st, err, deferred, ret, keychain,
                 docs, sessions, polecats>>

CallMarkLimited(p, handle, resetsAt) ==
  /\ pc[p] = "idle"
  /\ Start(p, [NoCall EXCEPT !.op = "MarkLimited", !.handle = handle,
                          !.resetsAt = resetsAt], "lock")

CallMarkAvailable(p, handle) ==
  /\ pc[p] = "idle"
  /\ Start(p, [NoCall EXCEPT !.op = "MarkAvailable", !.handle = handle], "lock")

CallSave(p, state) ==
  /\ pc[p] = "idle"
  /\ Start(p, [NoCall EXCEPT !.op = "Save", !.state = state], "lock")

CallWithLock(p, fn) ==
  /\ pc[p] = "idle"
  /\ Start(p, [NoCall EXCEPT !.op = "WithLock", !.fn = fn], "lock")

\* Load called on its own takes no lock.
CallLoad(p) ==
  /\ pc[p] = "idle"
  /\ Start(p, [NoCall EXCEPT !.op = "Load"], "load")

\* A lock() that does not wait for the holder.
LockGrantedAlways(p) == TRUE

\* Whether fl.Lock() can return: advisory flock, one holder at a time.
LockGranted(p) == lockHolder = NoProc

\* Manager.lock succeeds: the call holds the lock and defers unlock().
Lock(p) ==
  /\ pc[p] = "lock"
  /\ LockGranted(p)
  /\ lockHolder' = p
  /\ deferred' = [deferred EXCEPT ![p] = TRUE]
  /\ pc' = [pc EXCEPT ![p] =
              CASE call[p].op = "Save" -> "write"
                [] call[p].op = "WithLock" /\ call[p].fn.kind = "fail" -> "fn"
                [] call[p].op = "WithLock" /\ call[p].fn.kind = "saving" ->
                     "write"
                [] OTHER -> "load"]
  /\ UNCHANGED <<file, clock, calls, call, st, err, ret, keychain, docs,
                 sessions, polecats>>

\* Manager.lock fails (MkdirAll or flock error): the call returns the error.
LockFail(p) ==
  /\ pc[p] = "lock"
  /\ err' = [err EXCEPT ![p] = "acquiring quota lock"]
  /\ pc' = [pc EXCEPT ![p] = "return"]
  /\ UNCHANGED <<file, lockHolder, clock, calls, call, st, deferred, ret,
                 keychain, docs, sessions, polecats>>

\* m.Load() inside the running call.
DoLoad(p) ==
  /\ pc[p] = "load"
  /\ LET res == Load(file)
     IN /\ st' = [st EXCEPT ![p] = res.state]
        /\ err' = [err EXCEPT ![p] = res.err]
        /\ pc' = [pc EXCEPT ![p] =
                    IF res.err # "" \/ call[p].op = "Load" THEN "return"
                    ELSE "write"]
  /\ UNCHANGED <<file, lockHolder, clock, calls, call, deferred, ret, keychain,
                 docs, sessions, polecats>>

\* util.EnsureDirAndWriteJSON(m.statePath(), state): the file is replaced in
\* one step, or the write fails and the file is as before.
WriteJSON(p, state) ==
  /\ st' = [st EXCEPT ![p] = state]
  /\ \/ /\ file' = MarshalState(state)
        /\ err' = [err EXCEPT ![p] = ""]
     \/ /\ file' = file
        /\ err' = [err EXCEPT ![p] = "writing quota state"]
  /\ pc' = [pc EXCEPT ![p] = "return"]
  /\ UNCHANGED <<lockHolder, clock, calls, call, deferred, ret, keychain, docs,
                 sessions, polecats>>

\* A MarkLimited that builds the entry without copying LastUsed.
LimitedEntryNoLastUsed(state, handle, resetsAt, now) ==
  [Status |-> QuotaStatusLimited, LimitedAt |-> RFC3339(now),
   ResetsAt |-> resetsAt, LastUsed |-> ""]

\* The entry MarkLimited stores for the handle.
LimitedEntry(state, handle, resetsAt, now) ==
  [Status |-> QuotaStatusLimited, LimitedAt |-> RFC3339(now),
   ResetsAt |-> resetsAt, LastUsed |-> MapGet(state.Accounts, handle).LastUsed]

\* A MarkAvailable that only flips the status of the existing entry.
AvailableEntryKeepsLimit(state, handle) ==
  [MapGet(state.Accounts, handle) EXCEPT !.Status = QuotaStatusAvailable]

\* The entry MarkAvailable stores for the handle.
AvailableEntry(state, handle) ==
  [Status |-> QuotaStatusAvailable, LimitedAt |-> "", ResetsAt |-> "",
   LastUsed |-> MapGet(state.Accounts, handle).LastUsed]

MarkLimitedWrite(p) ==
  /\ pc[p] = "write"
  /\ call[p].op = "MarkLimited"
  /\ WriteJSON(p, [st[p] EXCEPT !.Accounts =
                     MapPut(st[p].Accounts, call[p].handle,
                            LimitedEntry(st[p], call[p].handle,
                                         call[p].resetsAt, clock))])

MarkAvailableWrite(p) ==
  /\ pc[p] = "write"
  /\ call[p].op = "MarkAvailable"
  /\ WriteJSON(p, [st[p] EXCEPT !.Accounts =
                     MapPut(st[p].Accounts, call[p].handle,
                            AvailableEntry(st[p], call[p].handle))])

\* A save that writes the caller's version as it is.
StampNothing(state) == state

\* state.Version = config.CurrentQuotaVersion
Stamp(state) == [state EXCEPT !.Version = CurrentQuotaVersion]

\* A Save that keeps the persisted entries its argument does not have.
SaveWriteMerges(p) ==
  /\ pc[p] = "write"
  /\ call[p].op = "Save"
  /\ LET onDisk == IF Load(file).err = "" THEN Load(file).state.Accounts.kv
                   ELSE <<>>
         mine == call[p].state.Accounts.kv
     IN WriteJSON(p, Stamp([call[p].state EXCEPT !.Accounts =
                              [isNil |-> FALSE,
                               kv |-> [h \in DOMAIN onDisk \cup DOMAIN mine |->
                                         IF h \in DOMAIN mine THEN mine[h]
                                         ELSE onDisk[h]]]]))

\* Save, once it holds the lock.
SaveWrite(p) ==
  /\ pc[p] = "write"
  /\ call[p].op = "Save"
  /\ WriteJSON(p, Stamp(call[p].state))

\* The callback mutates what it loaded and calls SaveUnlocked.  (Save, once
\* its own lock is granted, runs the same two statements.)
SaveUnlocked(p) ==
  /\ pc[p] = "write"
  /\ call[p].op = "WithLock"
  /\ call[p].fn.kind # "save"
  /\ WriteJSON(p, Stamp(Mutate(call[p].fn, st[p])))

\* The callback mutates what it loaded and calls Save, which asks for the
\* lock through a descriptor of its own.
FnSave(p) ==
  /\ pc[p] = "write"
  /\ call[p].op = "WithLock"
  /\ call[p].fn.kind = "save"
  /\ st' = [st EXCEPT ![p] = Mutate(call[p].fn, st[p])]
  /\ call' = [call EXCEPT ![p].fn.kind = "saving"]
  /\ pc' = [pc EXCEPT ![p] = "lock"]
  /\ UNCHANGED <<file, lockHolder, clock, calls, err, deferred, ret, keychain,
                 docs, sessions, polecats>>

\* The callback returns an error of its own without touching the state.
FnFail(p) ==
  /\ pc[p] = "fn"
  /\ err' = [err EXCEPT ![p] = "test error"]
  /\ pc' = [pc EXCEPT ![p] = "return"]
  /\ UNCHANGED <<file, lockHolder, clock, calls, call, st, deferred, ret,
                 keychain, docs, sessions, polecats>>

\* An unlock() that is called on the success path only, not deferred.
UnlockedOnSuccess(p) ==
  IF deferred[p] /\ err[p] = "" THEN NoProc ELSE lockHolder

\* The lock after the deferred unlock() of a returning call has run.
Unlocked(p) == IF deferred[p] THEN NoProc ELSE lockHolder

\* The call returns: the deferred unlock runs, the caller gets the result.
Return(p) ==
  /\ pc[p] = "return"
  /\ lockHolder' = Unlocked(p)
  /\ deferred' = [deferred EXCEPT ![p] = FALSE]
  /\ ret' = [ret EXCEPT ![p] =
               [op |-> call[p].op, err |-> err[p],
                state |-> IF call[p].op = "Load" THEN st[p] ELSE NilState,
                locked |-> deferred[p]]]
  /\ pc' = [pc EXCEPT ![p] = "idle"]
  /\ call' = [call EXCEPT ![p] = NoCall]
  /\ st' = [st EXCEPT ![p] = NilState]
  /\ err' = [err EXCEPT ![p] = ""]
  /\ UNCHANGED <<file, clock, calls, keychain, docs, sessions, polecats>>

\* Time passes.
Tick ==
  /\ clock < ClockStart + MaxTicks * TickMinutes
  /\ clock' = clock + TickMinutes
  /\ UNCHANGED <<file, lockHolder, calls, pc, call, st, err, deferred, ret,
                 keychain, docs, sessions, polecats>>

Next ==
  \/ \E p \in Procs, h \in Handles, r \in ResetInputs :
       CallMarkLimited(p, h, r)
  \/ \E p \in Procs, h \in Handles : CallMarkAvailable(p, h)
  \/ \E p \in Procs, s \in SaveArgs : CallSave(p, s)
  \/ \E p \in Procs, fn \in Callbacks : CallWithLock(p, fn)
  \/ \E p \in Procs : CallLoad(p)
  \/ \E p \in Procs : Lock(p)
  \/ \E p \in Procs : LockFail(p)
  \/ \E p \in Procs : DoLoad(p)
  \/ \E p \in Procs : MarkLimitedWrite(p)
  \/ \E p \in Procs : MarkAvailableWrite(p)
  \/ \E p \in Procs : SaveWrite(p)
  \/ \E p \in Procs : SaveUnlocked(p)
  \/ \E p \in Procs : FnFail(p)
  \/ \E p \in Procs : Return(p)
  \/ Tick

Spec == Init /\ [][Next]_vars

\* The step of the call process p is running, past the point where lock()
\* or the write can fail.  At most one of these is enabled at a time.
Proceed(p) ==
  \/ Lock(p)
  \/ DoLoad(p)
  \/ SaveUnlocked(p)
  \/ FnSave(p)
  \/ FnFail(p)
  \/ Return(p)

\* Every call that can take a step eventually takes it: a process that is
\* running a call keeps running, and flock grants a free lock to a waiter.
\* (A failing lock() or write is never forced.)
Fairness == \A p \in Procs : WF_vars(Proceed(p))

\* The callbacks that do not depend on the clock.
PlainCallbacks == {fn \in Callbacks : fn.kind # "clearExpired"}

\* Callers that run WithLock, with a callback that uses SaveUnlocked or with
\* the one that calls Save.
NextNested ==
  \/ \E p \in Procs, fn \in PlainCallbacks \cup SaveCallbacks :
       CallWithLock(p, fn)
  \/ \E p \in Procs : Lock(p)
  \/ \E p \in Procs : LockFail(p)
  \/ \E p \in Procs : DoLoad(p)
  \/ \E p \in Procs : SaveUnlocked(p)
  \/ \E p \in Procs : FnSave(p)
  \/ \E p \in Procs : FnFail(p)
  \/ \E p \in Procs : Return(p)
  \/ Tick

SpecNested == Init /\ [][NextNested]_vars /\ Fairness

\* --------------------------------------------- SaveUnlocked outside WithLock
\* The read-modify-write steps a caller runs on its own, without WithLock.
Mutations == {fn \in PlainCallbacks : fn.kind # "fail"}

\* A caller runs Load, a mutation and SaveUnlocked without WithLock.
CallSaveUnlocked(p, fn) ==
  /\ pc[p] = "idle"
  /\ Start(p, [NoCall EXCEPT !.op = "SaveUnlocked", !.fn = fn], "load")

\* SaveUnlocked called by a caller that never took the lock.
SaveUnlockedNoLock(p) ==
  /\ pc[p] = "write"
  /\ call[p].op = "SaveUnlocked"
  /\ WriteJSON(p, Stamp(Mutate(call[p].fn, st[p])))

\* Callers of MarkLimited, MarkAvailable and WithLock next to a caller that
\* uses SaveUnlocked on its own.
NextMisuse ==
  \/ \E p \in Procs, h \in Handles, r \in ResetInputs :
       CallMarkLimited(p, h, r)
  \/ \E p \in Procs, h \in Handles : CallMarkAvailable(p, h)
  \/ \E p \in Procs, fn \in PlainCallbacks : CallWithLock(p, fn)
  \/ \E p \in Procs, fn \in Mutations : CallSaveUnlocked(p, fn)
  \/ \E p \in Procs : Lock(p)
  \/ \E p \in Procs : LockFail(p)
  \/ \E p \in Procs : DoLoad(p)
  \/ \E p \in Procs : MarkLimitedWrite(p)
  \/ \E p \in Procs : MarkAvailableWrite(p)
  \/ \E p \in Procs : SaveUnlocked(p)
  \/ \E p \in Procs : SaveUnlockedNoLock(p)
  \/ \E p \in Procs : FnFail(p)
  \/ \E p \in Procs : Return(p)
  \/ Tick

SpecMisuse == Init /\ [][NextMisuse]_vars

\* ------------------------------------------- Load and Save outside WithLock
\* A caller runs Load, a mutation and Save without WithLock.
CallLoadThenSave(p, fn) ==
  /\ pc[p] = "idle"
  /\ Start(p, [NoCall EXCEPT !.op = "LoadThenSave", !.fn = fn], "load")

\* The caller mutates what it loaded and calls Save(state), which asks for
\* the lock.
MutateThenSave(p) ==
  /\ pc[p] = "write"
  /\ call[p].op = "LoadThenSave"
  /\ call' = [call EXCEPT ![p].op = "Save",
                          ![p].state = Mutate(call[p].fn, st[p])]
  /\ pc' = [pc EXCEPT ![p] = "lock"]
  /\ UNCHANGED <<file, lockHolder, clock, calls, st, err, deferred, ret,
                 keychain, docs, sessions, polecats>>

\* Callers of MarkLimited on handle "b" next to a caller that runs Load, a
\* mutation and Save on its own.
NextLoadThenSave ==
  \/ \E p \in Procs, r \in ResetInputs : CallMarkLimited(p, "b", r)
  \/ \E p \in Procs, fn \in Mutations : CallLoadThenSave(p, fn)
  \/ \E p \in Procs : Lock(p)
  \/ \E p \in Procs : LockFail(p)
  \/ \E p \in Procs : DoLoad(p)
  \/ \E p \in Procs : MarkLimitedWrite(p)
  \/ \E p \in Procs : MutateThenSave(p)
  \/ \E p \in Procs : SaveWrite(p)
  \/ \E p \in Procs : Return(p)
  \/ Tick

SpecLoadThenSave == Init /\ [][NextLoadThenSave]_vars

\* ------------------------------------------------ the policy on its own
\* The scan and the sweep apply the policy functions to a state in memory;
\* one process, the scanner, does so here on any state of up to three
\* accounts.
Scanner == CHOOSE p \in Procs : TRUE
TrackedHandles == {"a", "b", "c"}

\* The entries an account can have: available, unset status, cooldown, and
\* limited with no, a past, a future, a zoned and an unparseable reset time.
PolicyEntries ==
  {[Status |-> QuotaStatusAvailable, LimitedAt |-> "", ResetsAt |-> "",
    LastUsed |-> u] : u \in {"", "2025-01-01T01:00:00Z",
                             "2025-01-01T03:00:00Z"}}
  \cup
  {[Status |-> "", LimitedAt |-> "", ResetsAt |-> "", LastUsed |-> u] :
     u \in {"", "2025-01-01T02:00:00Z"}}
  \cup
  {[Status |-> QuotaStatusCooldown, LimitedAt |-> "", ResetsAt |-> r,
    LastUsed |-> "2025-01-01T01:00:00Z"] : r \in {"", "11am"}}
  \cup
  {[Status |-> QuotaStatusLimited, LimitedAt |-> "2025-01-01T00:00:00Z",
    ResetsAt |-> r, LastUsed |-> "2025-01-01T03:00:00Z"] :
     r \in {"", "11am", "7pm", "11am (Z)", "garbage"}}
  \cup
  {[Status |-> QuotaStatusLimited, LimitedAt |-> "2025-01-01T00:00:00Z",
    ResetsAt |-> "11am", LastUsed |-> ""]}

PolicyStates ==
  {[Version |-> CurrentQuotaVersion,
    Accounts |-> [isNil |-> FALSE, kv |-> kv]] :
     kv \in UNION {[D -> PolicyEntries] : D \in SUBSET TrackedHandles}}

\* The instants of the sweep: at 11:00, a minute later, at 19:00 and at
\* 20:00, local time.
PolicyNows ==
  {[t |-> x, off |-> LocalOffset] :
     x \in {11 * 60, 11 * 60 + 1, 19 * 60, 20 * 60}}

\* What the last policy call of a process got and returned.
NoResult ==
  [op |-> "none", list |-> <<>>, count |-> 0, before |-> NilState,
   accounts |-> {}, now |-> [t |-> 0, off |-> 0]]

InitPolicy ==
  /\ file = SeedFile
  /\ lockHolder = NoProc
  /\ clock = ClockStart
  /\ calls = 0
  /\ pc = [p \in Procs |-> "idle"]
  /\ call = [p \in Procs |-> NoCall]
  /\ \E s \in PolicyStates :
       st = [p \in Procs |-> IF p = Scanner THEN s ELSE NilState]
  /\ err = [p \in Procs |-> ""]
  /\ deferred = [p \in Procs |-> FALSE]
  /\ ret = [p \in Procs |-> NoResult]
  /\ keychain = NoKeychain
  /\ docs = NoDocs
  /\ sessions = NoSessions
  /\ polecats = NoPolecats

\* available := m.AvailableAccounts(state)
DoAvailableAccounts(p, keys) ==
  /\ ret' = [ret EXCEPT ![p] =
               [NoResult EXCEPT !.op = "AvailableAccounts",
                                !.list = AvailableAccounts(st[p], keys),
                                !.before = st[p]]]
  /\ UNCHANGED <<file, lockHolder, clock, calls, pc, call, st, err, deferred,
                 keychain, docs, sessions, polecats>>

\* limited := m.LimitedAccounts(state)
DoLimitedAccounts(p, keys) ==
  /\ ret' = [ret EXCEPT ![p] =
               [NoResult EXCEPT !.op = "LimitedAccounts",
                                !.list = LimitedAccounts(st[p], keys),
                                !.before = st[p]]]
  /\ UNCHANGED <<file, lockHolder, clock, calls, pc, call, st, err, deferred,
                 keychain, docs, sessions, polecats>>

\* m.EnsureAccountsTracked(state, accounts)
DoEnsureAccountsTracked(p, accounts) ==
  /\ st' = [st EXCEPT ![p] = EnsureAccountsTracked(st[p], accounts)]
  /\ ret' = [ret EXCEPT ![p] =
               [NoResult EXCEPT !.op = "EnsureAccountsTracked",
                                !.accounts = accounts, !.before = st[p]]]
  /\ UNCHANGED <<file, lockHolder, clock, calls, pc, call, err, deferred,
                 keychain, docs, sessions, polecats>>

\* cleared := clearExpiredAt(m, state, now)
DoClearExpired(p, now) ==
  /\ st' = [st EXCEPT ![p] = clearExpiredAt(st[p], now)]
  /\ ret' = [ret EXCEPT ![p] =
               [NoResult EXCEPT !.op = "ClearExpired", !.now = now,
                                !.count =
                                  Cardinality(ExpiredHandles(st[p], now)),
                                !.before = st[p]]]
  /\ UNCHANGED <<file, lockHolder, clock, calls, pc, call, err, deferred,
                 keychain, docs, sessions, polecats>>

NextPolicy ==
  \/ \E keys \in MapOrders(st[Scanner]) : DoAvailableAccounts(Scanner, keys)
  \/ \E keys \in MapOrders(st[Scanner]) : DoLimitedAccounts(Scanner, keys)
  \/ \E accounts \in SUBSET TrackedHandles :
       DoEnsureAccountsTracked(Scanner, accounts)
  \/ \E now \in PolicyNows : DoClearExpired(Scanner, now)

SpecPolicy == InitPolicy /\ [][NextPolicy]_vars

\* ----------------------------------------------- the grammar on its own
\* The largest hour and minute written in a reset-time text.
MaxHourText == 24
MaxMinuteText == 61

\* How the parts of a reset-time text are written.
HourText(h, pad) ==
  IF h >= 10 THEN <<Digits[(h \div 10) + 1], Digits[(h % 10) + 1]>>
  ELSE IF pad THEN <<"0", Digits[h + 1]>>
  ELSE <<Digits[h + 1]>>
MinuteText(m) == <<":", Digits[(m \div 10) + 1], Digits[(m % 10) + 1]>>
Meridiems == {<<"a", "m">>, <<"p", "m">>, <<"A", "M">>, <<"P", "m">>}
Gaps == {<<>>, <<" ">>}
ZoneTexts == {<<>>, <<" ", "(", "Z", ")">>, <<" ", "(", "X", ")">>}

\* The texts that match parseResetTimePattern: one or two hour digits, an
\* optional two-digit minute, optional space, the meridiem, an optional zone
\* in parentheses (a known one, or one time.LoadLocation does not know).
ResetArgs ==
  [hour : 0..MaxHourText, pad : {FALSE}, hasMinute : {FALSE},
   minute : {0}, gap : Gaps, meridiem : Meridiems, zone : ZoneTexts]
  \cup
  [hour : 0..9, pad : {TRUE}, hasMinute : {FALSE},
   minute : {0}, gap : {<<>>}, meridiem : Meridiems, zone : {<<>>}]
  \cup
  [hour : 0..MaxHourText, pad : {FALSE}, hasMinute : {TRUE},
   minute : 0..MaxMinuteText, gap : {<<>>}, meridiem : Meridiems,
   zone : ZoneTexts]

ResetText(arg) ==
  HourText(arg.hour, arg.pad)
    \o (IF arg.hasMinute THEN MinuteText(arg.minute) ELSE <<>>)
    \o arg.gap \o arg.meridiem \o arg.zone

\* Reference instants: mid-morning and half an hour before midnight in UTC,
\* and the latter seen from a location nine hours ahead, where it is the
\* morning of the next day.
References ==
  {[t |-> ClockStart, off |-> 0], [t |-> 23 * 60 + 30, off |-> 0],
   [t |-> 23 * 60 + 30, off |-> 9 * 60]}

\* The scanner is about to parse one text against one reference instant.
InitGrammar ==
  /\ file = SeedFile
  /\ lockHolder = NoProc
  /\ clock = ClockStart
  /\ calls = 0
  /\ pc = [p \in Procs |-> "idle"]
  /\ \E arg \in ResetArgs, reference \in References :
       call = [p \in Procs |->
                 IF p = Scanner
                 THEN [op |-> "ParseResetTime", arg |-> arg,
                       reference |-> reference]
                 ELSE NoCall]
  /\ st = [p \in Procs |-> NilState]
  /\ err = [p \in Procs |-> ""]
  /\ deferred = [p \in Procs |-> FALSE]
  /\ ret = [p \in Procs |-> NoResult]
  /\ keychain = NoKeychain
  /\ docs = NoDocs
  /\ sessions = NoSessions
  /\ polecats = NoPolecats

\* resetTime, err := ParseResetTime(resetsAt, reference)
DoParseResetTime(p) ==
  /\ call[p].op = "ParseResetTime"
  /\ ret[p].op = "none"
  /\ ret' = [ret EXCEPT ![p] =
               [op |-> "ParseResetTime", arg |-> call[p].arg,
                reference |-> call[p].reference,
                res |-> ParseResetTimeOf(ResetText(call[p].arg),
                                         call[p].reference)]]
  /\ UNCHANGED <<file, lockHolder, clock, calls, pc, call, st, err, deferred,
                 keychain, docs, sessions, polecats>>

NextGrammar == \E p \in Procs : DoParseResetTime(p)

SpecGrammar == InitGrammar /\ [][NextGrammar]_vars

\* ------------------------------------------- the grammar on any text
\* The longest text, and the characters texts are made of: a digit, the
\* colon, the letters of "pm", a space, another letter and the parentheses.
MaxTextLen == 5
Alphabet == {"1", ":", "p", "m", " ", "x", "(", ")"}
Texts == UNION {[1..n -> Alphabet] : n \in 0..MaxTextLen}

\* The scanner is about to parse one text against the reference instant.
InitTexts ==
  /\ file = SeedFile
  /\ lockHolder = NoProc
  /\ clock = ClockStart
  /\ calls = 0
  /\ pc = [p \in Procs |-> "idle"]
  /\ \E text \in Texts :
       call = [p \in Procs |->
                 IF p = Scanner
                 THEN [op |-> "ParseResetTime", text |-> text,
                       reference |-> [t |-> ClockStart, off |-> LocalOffset]]
                 ELSE NoCall]
  /\ st = [p \in Procs |-> NilState]
  /\ err = [p \in Procs |-> ""]
  /\ deferred = [p \in Procs |-> FALSE]
  /\ ret = [p \in Procs |-> NoResult]
  /\ keychain = NoKeychain
  /\ docs = NoDocs
  /\ sessions = NoSessions
  /\ polecats = NoPolecats

\* resetTime, err := ParseResetTime(resetsAt, reference)
DoParseText(p) ==
  /\ call[p].op = "ParseResetTime"
  /\ ret[p].op = "none"
  /\ ret' = [ret EXCEPT ![p] =
               [op |-> "ParseResetTime", text |-> call[p].text,
                reference |-> call[p].reference,
                res |-> ParseResetTimeOf(call[p].text, call[p].reference)]]
  /\ UNCHANGED <<file, lockHolder, clock, calls, pc, call, st, err, deferred,
                 keychain, docs, sessions, polecats>>

NextTexts == \E p \in Procs : DoParseText(p)

SpecTexts == InitTexts /\ [][NextTexts]_vars

\* ---------------------------------------------- service names on their own
\* Each process is about to compute the service name of one config dir, in
\* its own environment.
InitAddress ==
  /\ file = SeedFile
  /\ lockHolder = NoProc
  /\ clock = ClockStart
  /\ calls = 0
  /\ pc = [p \in Procs |-> "idle"]
  /\ call \in [Procs -> [op : {"KeychainServiceName"},
                         configDirPath : ConfigDirs, home : Homes]]
  /\ st = [p \in Procs |-> NilState]
  /\ err = [p \in Procs |-> ""]
  /\ deferred = [p \in Procs |-> FALSE]
  /\ ret = [p \in Procs |-> NoResult]
  /\ keychain = NoKeychain
  /\ docs = NoDocs
  /\ sessions = NoSessions
  /\ polecats = NoPolecats

\* svc := KeychainServiceName(configDirPath)
DoKeychainServiceName(p) ==
  /\ call[p].op = "KeychainServiceName"
  /\ ret[p].op = "none"
  /\ ret' = [ret EXCEPT ![p] =
               [op |-> "KeychainServiceName",
                configDirPath |-> call[p].configDirPath,
                home |-> call[p].home,
                service |-> KeychainServiceName(call[p].configDirPath,
                                                call[p].home)]]
  /\ UNCHANGED <<file, lockHolder, clock, calls, pc, call, st, err, deferred,
                 keychain, docs, sessions, polecats>>

NextAddress == \E p \in Procs : DoKeychainServiceName(p)

SpecAddress == InitAddress /\ [][NextAddress]_vars

\* ------------------------------------------------------ keychain rotation
\* The config dirs rotation moves tokens between, the home directory being
\* known, and their service names.
RotationDirs == {DefaultTilde, WorkTilde, PathX}
ServiceOf(dir) == KeychainServiceName(dir, HomeDir)
Services == {ServiceOf(dir) : dir \in RotationDirs}

\* The password stored for a config dir, if any; the one of the work dir
\* starts with a space.
SecretOf(dir) ==
  CASE dir = DefaultTilde -> <<"d">>
    [] dir = WorkTilde -> <<" ", "w">>
    [] dir = PathX -> <<"x">>

\* Keychains found at start: each config dir has its entry or none.
InitKeychains ==
  {[svc \in Services |->
      LET dir == CHOOSE d \in RotationDirs : ServiceOf(d) = svc
      IN IF dir \in present THEN SecretOf(dir) ELSE NoEntry] :
     present \in SUBSET RotationDirs}

\* Rotation runs inside or outside WithLock: the quota lock is free or held
\* by one of the processes.
InitKeychain ==
  /\ file = SeedFile
  /\ lockHolder \in Procs \cup {NoProc}
  /\ clock = ClockStart
  /\ calls = 0
  /\ pc = [p \in Procs |-> "idle"]
  /\ call = [p \in Procs |-> NoCall]
  /\ st = [p \in Procs |-> NilState]
  /\ err = [p \in Procs |-> ""]
  /\ deferred = [p \in Procs |-> FALSE]
  /\ ret = [p \in Procs |-> NoResult]
  /\ keychain \in InitKeychains
  /\ docs = NoDocs
  /\ sessions = NoSessions
  /\ polecats = NoPolecats

\* SwapKeychainCredential(targetConfigDir, sourceConfigDir) begins: the two
\* service names are computed.  (before records the keychain at the call.)
CallSwapKeychainCredential(p, targetConfigDir, sourceConfigDir) ==
  /\ pc[p] = "idle"
  /\ ret[p].op = "none"
  /\ call' = [call EXCEPT ![p] =
                [op |-> "SwapKeychainCredential",
                 targetSvc |-> ServiceOf(targetConfigDir),
                 sourceSvc |-> ServiceOf(sourceConfigDir),
                 backupToken |-> <<>>, sourceToken |-> <<>>,
                 before |-> keychain]]
  /\ pc' = [pc EXCEPT ![p] = "readTarget"]
  /\ UNCHANGED <<file, lockHolder, clock, calls, st, err, deferred, ret,
                 keychain, docs, sessions, polecats>>

\* Step 1: backupToken, err := ReadKeychainToken(targetSvc)
ReadTarget(p) ==
  /\ pc[p] = "readTarget"
  /\ LET res == ReadKeychainToken(keychain, call[p].targetSvc)
     IN IF res.err # ""
        THEN /\ err' = [err EXCEPT ![p] = "backing up target token"]
             /\ pc' = [pc EXCEPT ![p] = "return"]
             /\ call' = call
        ELSE /\ call' = [call EXCEPT ![p].backupToken = res.token]
             /\ pc' = [pc EXCEPT ![p] = "readSource"]
             /\ err' = err
  /\ UNCHANGED <<file, lockHolder, clock, calls, st, deferred, ret, keychain,
                 docs, sessions, polecats>>

\* Step 2: sourceToken, err := ReadKeychainToken(sourceSvc)
ReadSource(p) ==
  /\ pc[p] = "readSource"
  /\ LET res == ReadKeychainToken(keychain, call[p].sourceSvc)
     IN IF res.err # ""
        THEN /\ err' = [err EXCEPT ![p] = "reading source token"]
             /\ pc' = [pc EXCEPT ![p] = "return"]
             /\ call' = call
        ELSE /\ call' = [call EXCEPT ![p].sourceToken = res.token]
             /\ pc' = [pc EXCEPT ![p] = "writeTarget"]
             /\ err' = err
  /\ UNCHANGED <<file, lockHolder, clock, calls, st, deferred, ret, keychain,
                 docs, sessions, polecats>>

\* WriteKeychainToken(serviceName, "claude-code", token): security updates
\* the entry, or fails and leaves it.
WriteKeychainToken(p, serviceName, token, failure) ==
  /\ \/ /\ keychain' = [keychain EXCEPT ![serviceName] = token]
        /\ err' = [err EXCEPT ![p] = ""]
     \/ /\ keychain' = keychain
        /\ err' = [err EXCEPT ![p] = failure]
  /\ pc' = [pc EXCEPT ![p] = "return"]
  /\ UNCHANGED <<file, lockHolder, clock, calls, call, st, deferred, ret, docs,
                 sessions, polecats>>

\* Step 3: WriteKeychainToken(targetSvc, "claude-code", sourceToken)
WriteTarget(p) ==
  /\ pc[p] = "writeTarget"
  /\ WriteKeychainToken(p, call[p].targetSvc, call[p].sourceToken,
                        "writing source token to target keychain")

\* SwapKeychainCredential returns the backup, or nil and the error.
ReturnSwap(p) ==
  /\ pc[p] = "return"
  /\ call[p].op = "SwapKeychainCredential"
  /\ ret' = [ret EXCEPT ![p] =
               [op |-> "SwapKeychainCredential", err |-> err[p],
                backup |-> IF err[p] # "" THEN NilBackup
                           ELSE KeychainCredential(call[p].targetSvc,
                                                   call[p].backupToken),
                targetSvc |-> call[p].targetSvc,
                sourceSvc |-> call[p].sourceSvc,
                before |-> call[p].before]]
  /\ pc' = [pc EXCEPT ![p] = "idle"]
  /\ call' = [call EXCEPT ![p] = NoCall]
  /\ err' = [err EXCEPT ![p] = ""]
  /\ UNCHANGED <<file, lockHolder, clock, calls, st, deferred, keychain, docs,
                 sessions, polecats>>

\* The caller rolls back: RestoreKeychainToken(backup) with what its swap
\* returned, nil after a failed swap or when there was no swap.
CallRestoreKeychainToken(p) ==
  /\ pc[p] = "idle"
  /\ ret[p].op \in {"none", "SwapKeychainCredential"}
  /\ call' = [call EXCEPT ![p] =
                IF ret[p].op = "none"
                THEN [op |-> "RestoreKeychainToken", backup |-> NilBackup,
                      targetSvc |-> "", sourceSvc |-> "",
                      before |-> keychain]
                ELSE [op |-> "RestoreKeychainToken",
                      backup |-> ret[p].backup,
                      targetSvc |-> ret[p].targetSvc,
                      sourceSvc |-> ret[p].sourceSvc,
                      before |-> ret[p].before]]
  /\ pc' = [pc EXCEPT ![p] = "restore"]
  /\ UNCHANGED <<file, lockHolder, clock, calls, st, err, deferred, ret,
                 keychain, docs, sessions, polecats>>

\* RestoreKeychainToken(backup): nothing for nil, else one write.
RestoreKeychainToken(p) ==
  /\ pc[p] = "restore"
  /\ IF call[p].backup = NilBackup
     THEN /\ pc' = [pc EXCEPT ![p] = "return"]
          /\ UNCHANGED <<file, lockHolder, clock, calls, call, st, err,
                         deferred, ret, keychain, docs, sessions, polecats>>
     ELSE WriteKeychainToken(p, call[p].backup.ServiceName,
                             call[p].backup.Token, "writing keychain token")

ReturnRestore(p) ==
  /\ pc[p] = "return"
  /\ call[p].op = "RestoreKeychainToken"
  /\ ret' = [ret EXCEPT ![p] =
               [op |-> "RestoreKeychainToken", err |-> err[p],
                backup |-> call[p].backup,
                targetSvc |-> call[p].targetSvc,
                sourceSvc |-> call[p].sourceSvc,
                before |-> call[p].before]]
  /\ pc' = [pc EXCEPT ![p] = "idle"]
  /\ call' = [call EXCEPT ![p] = NoCall]
  /\ err' = [err EXCEPT ![p] = ""]
  /\ UNCHANGED <<file, lockHolder, clock, calls, st, deferred, keychain, docs,
                 sessions, polecats>>

NextKeychain ==
  \/ \E p \in Procs, target \in RotationDirs, source \in RotationDirs :
       CallSwapKeychainCredential(p, target, source)
  \/ \E p \in Procs : ReadTarget(p)
  \/ \E p \in Procs : ReadSource(p)
  \/ \E p \in Procs : WriteTarget(p)
  \/ \E p \in Procs : ReturnSwap(p)
  \/ \E p \in Procs : CallRestoreKeychainToken(p)
  \/ \E p \in Procs : RestoreKeychainToken(p)
  \/ \E p \in Procs : ReturnRestore(p)

SpecKeychain == InitKeychain /\ [][NextKeychain]_vars

\* ---------------------------------------------------- identity documents
\* The config dirs whose .claude.json rotation edits, and the documents
\* found at start.
IdentityDirs == {DefaultTilde, WorkTilde}
IdentityPaths == {ClaudeJson(dir) : dir \in IdentityDirs}
OAuthValues == {"{\"accountUuid\":\"1\"}", "null"}
OtherValues == {"\"u\""}
JsonDocs ==
  {JsonDoc(f) :
     f \in UNION {[names -> OAuthValues \cup OtherValues] :
                    names \in SUBSET {"oauthAccount", "userID"}}}
FieldsFit(doc) ==
  /\ "oauthAccount" \in DOMAIN doc.fields =>
       doc.fields["oauthAccount"] \in OAuthValues
  /\ "userID" \in DOMAIN doc.fields => doc.fields["userID"] \in OtherValues
Documents ==
  {MissingDoc, UnreadableDoc, GarbageDoc} \cup
  {doc \in JsonDocs : FieldsFit(doc)}

InitIdentity ==
  /\ file = SeedFile
  /\ lockHolder = NoProc
  /\ clock = ClockStart
  /\ calls = 0
  /\ pc = [p \in Procs |-> "idle"]
  /\ call = [p \in Procs |-> NoCall]
  /\ st = [p \in Procs |-> NilState]
  /\ err = [p \in Procs |-> ""]
  /\ deferred = [p \in Procs |-> FALSE]
  /\ ret = [p \in Procs |-> NoResult]
  /\ keychain \in InitKeychains
  /\ docs \in [IdentityPaths -> Documents]
  /\ sessions = NoSessions
  /\ polecats = NoPolecats

\* SwapOAuthAccount(targetConfigDir, sourceConfigDir), from call to return.
DoSwapOAuthAccount(p, targetConfigDir, sourceConfigDir) ==
  /\ pc[p] = "idle"
  /\ ret[p].op = "none"
  /\ \E outcome \in WriteOutcomes :
       LET res == SwapOAuthAccount(docs, targetConfigDir, sourceConfigDir,
                                   outcome)
       IN /\ docs' = res.docs
          /\ ret' = [ret EXCEPT ![p] =
                       [op |-> "SwapOAuthAccount", err |-> res.err,
                        backup |-> res.backup,
                        targetConfigDir |-> targetConfigDir,
                        sourceConfigDir |-> sourceConfigDir,
                        before |-> docs]]
  /\ UNCHANGED <<file, lockHolder, clock, calls, pc, call, st, err, deferred,
                 keychain, sessions, polecats>>

\* The caller rolls back: RestoreOAuthAccount(targetConfigDir, backup) with
\* what its swap returned, from call to return.
DoRestoreOAuthAccount(p) ==
  /\ pc[p] = "idle"
  /\ ret[p].op = "SwapOAuthAccount"
  /\ \E outcome \in WriteOutcomes :
       LET res == RestoreOAuthAccount(docs, ret[p].targetConfigDir,
                                      ret[p].backup, outcome)
       IN /\ docs' = res.docs
          /\ ret' = [ret EXCEPT ![p] =
                       [op |-> "RestoreOAuthAccount", err |-> res.err,
                        backup |-> ret[p].backup,
                        targetConfigDir |-> ret[p].targetConfigDir,
                        sourceConfigDir |-> ret[p].sourceConfigDir,
                        before |-> ret[p].before,
                        atRestore |-> docs]]
  /\ UNCHANGED <<file, lockHolder, clock, calls, pc, call, st, err, deferred,
                 keychain, sessions, polecats>>

\* A process swaps and rolls back the identity document, or rolls back a
\* keychain swap that never happened.
NextIdentity ==
  \/ \E p \in Procs, target \in IdentityDirs, source \in IdentityDirs :
       DoSwapOAuthAccount(p, target, source)
  \/ \E p \in Procs : DoRestoreOAuthAccount(p)
  \/ \E p \in Procs : CallRestoreKeychainToken(p)
  \/ \E p \in Procs : RestoreKeychainToken(p)
  \/ \E p \in Procs : ReturnRestore(p)

SpecIdentity == InitIdentity /\ [][NextIdentity]_vars

\* ------------------------------------------------------- token validation
\* time.Now().Unix(), the clock counting minutes.
UnixNow == clock * 60

\* Expiry times around the clock's start, as decimal digits.
ExpiryPast == <<"3", "5", "9", "9", "9">>
ExpiryNow == <<"3", "6", "0", "0", "0">>
ExpiryFuture == <<"3", "6", "0", "0", "1">>
ExpiryTexts ==
  {ExpiryPast, ExpiryNow, ExpiryFuture, <<"0">>, <<"-", "1">>}

Object(key, value) == <<"{", key, ":">> \o value \o <<"}">>
JWT(payload) == <<"h", ".">> \o Base64Of(payload) \o <<".", "s">>

\* Secrets a keychain entry can hold: blank, credentials with and without
\* an expiry, three-part tokens with and without an expiry claim, and
\* tokens of neither form.
ValidatorSecrets ==
  {<<" ">>, <<"s", "k">>, <<"h", ".", "s">>, <<"h", ".", "!", ".", "s">>,
   <<"{", "}">>,
   Object(KeyOther, <<StringValue>>),
   Object(KeyExpiresAt, <<StringValue>>),
   Object(KeyExpiresAt, <<"1", ".", "5">>),
   JWT(Object(KeyOther, <<"1">>))}
  \cup {Object(KeyExpiresAt, e) : e \in ExpiryTexts}
  \cup {JWT(Object(KeyExp, e)) : e \in ExpiryTexts}

\* What ValidateKeychainToken must not write.
Stores == [keychain |-> keychain, docs |-> docs, file |-> file]

InitValidate ==
  /\ file = SeedFile
  /\ lockHolder = NoProc
  /\ clock = ClockStart
  /\ calls = 0
  /\ pc = [p \in Procs |-> "idle"]
  /\ call \in [Procs -> [op : {"ValidateKeychainToken"},
                         configDir : {DefaultTilde, WorkTilde},
                         probe : ProbeOutcomes]]
  /\ st = [p \in Procs |-> NilState]
  /\ err = [p \in Procs |-> ""]
  /\ deferred = [p \in Procs |-> FALSE]
  /\ ret = [p \in Procs |-> NoResult]
  /\ keychain \in
       {kc \in [Services -> ValidatorSecrets \cup {NoEntry}] :
          kc[ServiceOf(PathX)] = NoEntry}
  /\ docs = NoDocs
  /\ sessions = NoSessions
  /\ polecats = NoPolecats

\* ValidateKeychainToken(configDir), from call to return.
DoValidateKeychainToken(p) ==
  /\ call[p].op = "ValidateKeychainToken"
  /\ ret[p].op = "none"
  /\ LET res == ValidateKeychainToken(keychain, ServiceOf(call[p].configDir),
                                      UnixNow, call[p].probe)
     IN ret' = [ret EXCEPT ![p] =
                  [op |-> "ValidateKeychainToken", err |-> res.err,
                   probed |-> res.probed,
                   configDir |-> call[p].configDir,
                   probe |-> call[p].probe,
                   now |-> UnixNow,
                   before |-> Stores]]
  /\ UNCHANGED <<file, lockHolder, clock, calls, pc, call, st, err, deferred,
                 keychain, docs, sessions, polecats>>

NextValidate == \E p \in Procs : DoValidateKeychainToken(p)

SpecValidate == InitValidate /\ [][NextValidate]_vars

\* -------------------------------------------------------- the probe's wait
\* http.Client{Timeout: 10 * time.Second}, in seconds.
probeTimeoutSeconds == 10

\* Secrets validated while the remote end is slow: one of neither form, a
\* credential that has not expired, or none.
ProbeSecrets == {<<"s", "k">>, Object(KeyExpiresAt, ExpiryFuture), NoEntry}

\* call[p].probe is what the API would do to p's request: answer (401 or
\* another status), fail at the network, or stay silent.
InitProbe ==
  /\ file = SeedFile
  /\ lockHolder = NoProc
  /\ clock = ClockStart
  /\ calls = 0
  /\ pc = [p \in Procs |-> "idle"]
  /\ call \in [Procs -> [op : {"ValidateKeychainToken"},
                         configDir : {DefaultTilde},
                         probe : ProbeOutcomes,
                         verdict : {[err |-> "", probed |-> FALSE]},
                         elapsed : {0}]]
  /\ st = [p \in Procs |-> NilState]
  /\ err = [p \in Procs |-> ""]
  /\ deferred = [p \in Procs |-> FALSE]
  /\ ret = [p \in Procs |-> NoResult]
  /\ keychain \in
       {kc \in [Services -> ProbeSecrets] :
          \A svc \in Services \ {ServiceOf(DefaultTilde)} :
            kc[svc] = NoEntry}
  /\ docs = NoDocs
  /\ sessions = NoSessions
  /\ polecats = NoPolecats

\* What the validation would do with an API that answers at once.
LocalVerdict(p) ==
  ValidateKeychainToken(keychain, ServiceOf(call[p].configDir), UnixNow,
                        call[p].probe)

\* ValidateKeychainToken reads the secret and tries the two local
\* strategies.
ReadSecret(p) ==
  /\ pc[p] = "idle"
  /\ ret[p].op = "none"
  /\ call' = [call EXCEPT ![p].verdict = LocalVerdict(p)]
  /\ pc' = [pc EXCEPT ![p] = "decided"]
  /\ UNCHANGED <<file, lockHolder, clock, calls, st, err, deferred, ret,
                 keychain, docs, sessions, polecats>>

\* ValidateKeychainToken returns with error e after the probe met outcome.
ProbeReturns(p, e, outcome) ==
  /\ ret' = [ret EXCEPT ![p] =
               [op |-> "ValidateKeychainToken", err |-> e,
                probed |-> outcome # "none",
                configDir |-> call[p].configDir,
                probe |-> outcome,
                waited |-> call[p].elapsed,
                now |-> UnixNow,
                before |-> Stores]]
  /\ pc' = [pc EXCEPT ![p] = "idle"]
  /\ UNCHANGED <<file, lockHolder, clock, calls, call, st, err, deferred,
                 keychain, docs, sessions, polecats>>

\* The validation is decided without the network.
ValidateLocally(p) ==
  /\ pc[p] = "decided"
  /\ ~call[p].verdict.probed
  /\ ProbeReturns(p, call[p].verdict.err, "none")

\* validateTokenHTTP: client.Do sends the request and waits.
SendProbe(p) ==
  /\ pc[p] = "decided"
  /\ call[p].verdict.probed
  /\ pc' = [pc EXCEPT ![p] = "probing"]
  /\ UNCHANGED <<file, lockHolder, clock, calls, call, st, err, deferred, ret,
                 keychain, docs, sessions, polecats>>

\* A second passes without an answer.
WaitProbe(p) ==
  /\ pc[p] = "probing"
  /\ call[p].elapsed < probeTimeoutSeconds
  /\ call' = [call EXCEPT ![p].elapsed = @ + 1]
  /\ UNCHANGED <<file, lockHolder, clock, calls, pc, st, err, deferred, ret,
                 keychain, docs, sessions, polecats>>

\* The API answers before the timeout.
ProbeAnswer(p) ==
  /\ pc[p] = "probing"
  /\ call[p].elapsed < probeTimeoutSeconds
  /\ call[p].probe \in {"401", "other status"}
  /\ ProbeReturns(p, validateTokenHTTP(call[p].probe), call[p].probe)

\* client.Do fails before the timeout.
ProbeNetworkError(p) ==
  /\ pc[p] = "probing"
  /\ call[p].elapsed < probeTimeoutSeconds
  /\ call[p].probe = "network error"
  /\ ProbeReturns(p, "", "network error")

\* A timeout that never comes.
ProbeTimeoutNever(p) ==
  /\ FALSE
  /\ UNCHANGED vars

\* The client's timeout expires: client.Do returns an error.
ProbeTimeout(p) ==
  /\ pc[p] = "probing"
  /\ call[p].elapsed = probeTimeoutSeconds
  /\ ProbeReturns(p, "", "timeout")

NextProbe ==
  \/ \E p \in Procs : ReadSecret(p)
  \/ \E p \in Procs : ValidateLocally(p)
  \/ \E p \in Procs : SendProbe(p)
  \/ \E p \in Procs : WaitProbe(p)
  \/ \E p \in Procs : ProbeAnswer(p)
  \/ \E p \in Procs : ProbeNetworkError(p)
  \/ \E p \in Procs : ProbeTimeout(p)

\* The process runs and time passes; the API owes nothing.  The first
\* conjunct is weak fairness of ReadSecret(p), its enabling condition
\* written out.
FairnessProbe ==
  \A p \in Procs :
    /\ \/ []<>(pc[p] # "idle" \/ ret[p].op # "none")
       \/ []<><<ReadSecret(p)>>_vars
    /\ WF_vars(ValidateLocally(p) \/ SendProbe(p))
    /\ WF_vars(WaitProbe(p))
    /\ WF_vars(ProbeTimeout(p))

SpecProbe == InitProbe /\ [][NextProbe]_vars /\ FairnessProbe

\* ---------------------------------------------------------------- shutdown
\* Session names are character sequences.  The two constants are those of
\* the mayor and deacon commands.
MayorSessionName == <<"g", "t", "-", "m", "a", "y", "o", "r">>
DeaconSessionName == <<"g", "t", "-", "d", "e", "a", "c", "o", "n">>
GtPrefix == <<"g", "t", "-">>

\* A witness session, a polecat session, and a session of somebody else.
SessionNames ==
  {MayorSessionName, DeaconSessionName, <<"g", "t", "-", "w">>,
   <<"g", "t", "-", "p">>, <<"g", "t">>}

\* strings.HasPrefix
HasPrefix(str, prefix) ==
  Len(str) >= Len(prefix) /\ SubSeq(str, 1, Len(prefix)) = prefix

\* --wait, default 30
shutdownWaitDefault == 30
ShutdownWaits == {0, 7, shutdownWaitDefault}

\* The sessions the second kill loop also takes the Mayor from.
OtherSessionsWithMayor(list) ==
  {sess \in list : sess # DeaconSessionName /\ HasPrefix(sess, GtPrefix)}

\* The sessions the second kill loop kills: gt-* except Mayor and Deacon.
OtherSessions(list) ==
  {sess \in list :
     /\ sess \notin {MayorSessionName, DeaconSessionName}
     /\ HasPrefix(sess, GtPrefix)}

NoShutdown ==
  [op |-> "gt shutdown", graceful |-> FALSE, shutdownWait |-> 0,
   gtSessions |-> {}, todo |-> {}, interrupted |-> {}, asked |-> {},
   remaining |-> 0, killed |-> <<>>]

\* gt shutdown [--graceful] [--wait n] is about to run against some live
\* sessions.
InitShutdown ==
  /\ file = SeedFile
  /\ lockHolder = NoProc
  /\ clock = ClockStart
  /\ calls = 0
  /\ pc = [p \in Procs |-> IF p = Scanner THEN "runShutdown" ELSE "idle"]
  /\ \E graceful \in BOOLEAN, wait \in ShutdownWaits :
       call = [p \in Procs |->
                 IF p = Scanner
                 THEN [NoShutdown EXCEPT !.graceful = graceful,
                                         !.shutdownWait = wait]
                 ELSE NoCall]
  /\ st = [p \in Procs |-> NilState]
  /\ err = [p \in Procs |-> ""]
  /\ deferred = [p \in Procs |-> FALSE]
  /\ ret = [p \in Procs |-> NoResult]
  /\ keychain = NoKeychain
  /\ docs = NoDocs
  /\ sessions \in SUBSET SessionNames
  /\ polecats = NoPolecats

ShutdownFrame ==
  UNCHANGED <<file, lockHolder, clock, calls, st, err, deferred, keychain,
              docs, polecats>>

\* The command goes to position pos with its locals changed to c.
ShutdownStep(p, pos, c) ==
  /\ pc' = [pc EXCEPT ![p] = pos]
  /\ call' = [call EXCEPT ![p] = c]

\* The command returns.
ShutdownReturns(p, e) ==
  /\ pc' = [pc EXCEPT ![p] = "idle"]
  /\ ret' = [ret EXCEPT ![p] =
               [op |-> "gt shutdown", err |-> e,
                graceful |-> call[p].graceful,
                killed |-> call[p].killed]]
  /\ UNCHANGED <<call, sessions>>
  /\ ShutdownFrame

\* t.KillSession(sess) inside a kill loop: the session dies and is counted,
\* or the call fails because there is no such session.
KillSession(p, sess, pos, c) ==
  /\ sessions' = sessions \ {sess}
  /\ ShutdownStep(p, pos,
                  IF sess \in sessions
                  THEN [c EXCEPT !.killed = Append(@, sess)] ELSE c)
  /\ ShutdownFrame

\* runShutdown
RunShutdown(p) ==
  /\ pc[p] = "runShutdown"
  /\ ShutdownStep(p, IF call[p].graceful THEN "list" ELSE "deacon", call[p])
  /\ UNCHANGED <<ret, sessions>>
  /\ ShutdownFrame

\* runGracefulShutdown: t.ListSessions() and the gt-* filter.
GracefulList(p) ==
  /\ pc[p] = "list"
  /\ \/ /\ LET gt == {sess \in sessions : HasPrefix(sess, GtPrefix)}
           IN IF gt = {}
              THEN ShutdownReturns(p, "")
              ELSE /\ ShutdownStep(p, "interrupt",
                                   [call[p] EXCEPT !.gtSessions = gt,
                                                   !.todo = gt])
                   /\ UNCHANGED <<ret, sessions>>
                   /\ ShutdownFrame
     \/ ShutdownReturns(p, "listing sessions")

\* Phase 1: Escape to one more session; after the last, phase 2 begins.
Interrupt(p) ==
  /\ pc[p] = "interrupt"
  /\ \E sess \in call[p].todo :
       LET c == [call[p] EXCEPT !.interrupted = @ \cup {sess},
                                !.todo = @ \ {sess}]
       IN IF c.todo = {}
          THEN ShutdownStep(p, "handoff", [c EXCEPT !.todo = c.gtSessions])
          ELSE ShutdownStep(p, "interrupt", c)
  /\ UNCHANGED <<ret, sessions>>
  /\ ShutdownFrame

\* Phase 2: the shutdown message to one more session; after the last,
\* phase 3 begins with remaining = shutdownWait.
RequestHandoff(p) ==
  /\ pc[p] = "handoff"
  /\ \E sess \in call[p].todo :
       LET c == [call[p] EXCEPT !.asked = @ \cup {sess},
                                !.todo = @ \ {sess}]
       IN IF c.todo = {}
          THEN ShutdownStep(p, "wait",
                            [c EXCEPT !.remaining = c.shutdownWait])
          ELSE ShutdownStep(p, "handoff", c)
  /\ UNCHANGED <<ret, sessions>>
  /\ ShutdownFrame

\* Phase 3: one turn of the countdown, or its end.
WaitHandoff(p) ==
  /\ pc[p] = "wait"
  /\ IF call[p].remaining > 0
     THEN ShutdownStep(p, "wait", [call[p] EXCEPT !.remaining = @ - 5])
     ELSE ShutdownStep(p, "killDeacon", call[p])
  /\ UNCHANGED <<ret, sessions>>
  /\ ShutdownFrame

\* Phase 4, first loop: the Deacon, if it was listed.
GracefulKillDeacon(p) ==
  /\ pc[p] = "killDeacon"
  /\ LET c == [call[p] EXCEPT !.todo = OtherSessions(call[p].gtSessions)]
         pos == IF c.todo = {} THEN "killMayor" ELSE "killOthers"
     IN IF DeaconSessionName \in call[p].gtSessions
        THEN KillSession(p, DeaconSessionName, pos, c)
        ELSE /\ ShutdownStep(p, pos, c)
             /\ UNCHANGED sessions
             /\ ShutdownFrame
  /\ UNCHANGED ret

\* Second loop, both modes: one more of the other sessions.
KillOthers(p) ==
  /\ pc[p] = "killOthers"
  /\ \E sess \in call[p].todo :
       LET c == [call[p] EXCEPT !.todo = @ \ {sess}]
       IN KillSession(p, sess,
                      IF c.todo # {} THEN "killOthers"
                      ELSE IF c.graceful THEN "killMayor" ELSE "mayor", c)
  /\ UNCHANGED ret

\* Third loop: the Mayor, if it was listed; then the command returns.
GracefulKillMayor(p) ==
  /\ pc[p] = "killMayor"
  /\ IF MayorSessionName \in call[p].gtSessions
     THEN KillSession(p, MayorSessionName, "return", call[p])
     ELSE /\ ShutdownStep(p, "return", call[p])
          /\ UNCHANGED sessions
          /\ ShutdownFrame
  /\ UNCHANGED ret

\* runImmediateShutdown, 1: the Deacon, if t.HasSession says so.
ImmediateKillDeacon(p) ==
  /\ pc[p] = "deacon"
  /\ IF DeaconSessionName \in sessions
     THEN KillSession(p, DeaconSessionName, "listOthers", call[p])
     ELSE /\ ShutdownStep(p, "listOthers", call[p])
          /\ UNCHANGED sessions
          /\ ShutdownFrame
  /\ UNCHANGED ret

\* 2: t.ListSessions(); when it fails the loop is skipped.
ImmediateList(p) ==
  /\ pc[p] = "listOthers"
  /\ \E listed \in {sessions, {}} :
       LET c == [call[p] EXCEPT !.todo = OtherSessions(listed)]
       IN ShutdownStep(p, IF c.todo = {} THEN "mayor" ELSE "killOthers", c)
  /\ UNCHANGED <<ret, sessions>>
  /\ ShutdownFrame

\* 3: the Mayor, if t.HasSession says so.
ImmediateKillMayor(p) ==
  /\ pc[p] = "mayor"
  /\ IF MayorSessionName \in sessions
     THEN KillSession(p, MayorSessionName, "return", call[p])
     ELSE /\ ShutdownStep(p, "return", call[p])
          /\ UNCHANGED sessions
          /\ ShutdownFrame
  /\ UNCHANGED ret

ShutdownDone(p) ==
  /\ pc[p] = "return"
  /\ ShutdownReturns(p, "")

\* An agent exits on its own while the command runs.
SessionExits(sess) ==
  /\ pc[Scanner] # "idle"
  /\ sess \in sessions
  /\ sessions' = sessions \ {sess}
  /\ UNCHANGED <<pc, call, ret>>
  /\ ShutdownFrame

NextShutdown ==
  \/ RunShutdown(Scanner)
  \/ GracefulList(Scanner)
  \/ Interrupt(Scanner)
  \/ RequestHandoff(Scanner)
  \/ WaitHandoff(Scanner)
  \/ GracefulKillDeacon(Scanner)
  \/ KillOthers(Scanner)
  \/ GracefulKillMayor(Scanner)
  \/ ImmediateKillDeacon(Scanner)
  \/ ImmediateList(Scanner)
  \/ ImmediateKillMayor(Scanner)
  \/ ShutdownDone(Scanner)
  \/ \E sess \in SessionNames : SessionExits(sess)

SpecShutdown == InitShutdown /\ [][NextShutdown]_vars

\* ---------------------------------------------------------------- polecats
\* polecat.State values.
StateIdle == "idle"
StateActive == "active"
StateWorking == "working"
StateDone == "done"
StateStuck == "stuck"
PolecatStates ==
  {StateIdle, StateActive, StateWorking, StateDone, StateStuck}

ErrPolecatNotFound == "polecat not found"

\* A polecat: no directory; or a directory whose state.json is missing,
\* unparseable, or the JSON of a Polecat.
NoPolecat == [kind |-> "none"]
MissingState == [kind |-> "missing"]
GarbageState == [kind |-> "garbage"]
PolecatJSON(state, issue, updatedAt) ==
  [kind |-> "json", State |-> state, Issue |-> issue,
   UpdatedAt |-> updatedAt]

PolecatNames == {"Toast"}
Issues == {"", "gt-1"}
NewIssue == "gt-2"
PolecatFiles ==
  {NoPolecat, MissingState, GarbageState} \cup
  {PolecatJSON(state, issue, 0) : state \in PolecatStates, issue \in Issues}

PolecatOps == {"Wake", "Sleep", "Finish", "Reset", "AssignIssue"}

\* m.Get(name): the polecat and the error.
Get(pcs, name) ==
  CASE pcs[name] = NoPolecat ->
         [polecat |-> NoPolecat, err |-> ErrPolecatNotFound]
    [] pcs[name] = MissingState ->
         [polecat |-> PolecatJSON(StateIdle, "", 0), err |-> ""]
    [] pcs[name] = GarbageState ->
         [polecat |-> NoPolecat, err |-> "parsing state"]
    [] OTHER -> [polecat |-> pcs[name], err |-> ""]

\* A guard that lets every state pass.
GuardAlways(op, state) == TRUE

\* The state test of op.
Guard(op, state) ==
  CASE op = "Wake" -> state = StateIdle
    [] op = "Sleep" -> state = StateActive
    [] op = "Finish" -> state \in {StateWorking, StateDone, StateStuck}
    [] OTHER -> TRUE

GuardError(op) ==
  CASE op = "Wake" -> "polecat is not idle"
    [] op = "Sleep" -> "polecat is not active"
    [] OTHER -> "polecat is not in a finishing state"

\* What op assigns to the polecat it has loaded, at time now.
Assign(op, polecat, issue, now) ==
  CASE op = "Wake" -> [polecat EXCEPT !.State = StateActive,
                                      !.UpdatedAt = now]
    [] op = "Sleep" -> [polecat EXCEPT !.State = StateIdle,
                                       !.UpdatedAt = now]
    [] op = "AssignIssue" -> [polecat EXCEPT !.Issue = issue,
                                             !.State = StateWorking,
                                             !.UpdatedAt = now]
    [] OTHER -> [polecat EXCEPT !.Issue = "", !.State = StateIdle,
                                !.UpdatedAt = now]

InitPolecats ==
  /\ file = SeedFile
  /\ lockHolder = NoProc
  /\ clock = ClockStart
  /\ calls = 0
  /\ pc = [p \in Procs |-> "idle"]
  /\ call \in [Procs -> [op : PolecatOps, name : PolecatNames,
                         issue : {NewIssue}, seen : {NoPolecat},
                         polecat : {NoPolecat}, wrote : {FALSE}]]
  /\ st = [p \in Procs |-> NilState]
  /\ err = [p \in Procs |-> ""]
  /\ deferred = [p \in Procs |-> FALSE]
  /\ ret = [p \in Procs |-> NoResult]
  /\ keychain = NoKeychain
  /\ docs = NoDocs
  /\ sessions = NoSessions
  /\ polecats \in [PolecatNames -> PolecatFiles]

PolecatFrame ==
  UNCHANGED <<file, lockHolder, clock, calls, st, deferred, keychain, docs,
              sessions>>

\* The operation fails with error e.
PolecatFails(p, e) ==
  /\ err' = [err EXCEPT ![p] = e]
  /\ pc' = [pc EXCEPT ![p] = "return"]

\* polecat, err := m.Get(name) at the start of the operation, and the
\* state test.
GetPolecat(p) ==
  /\ pc[p] = "idle"
  /\ ret[p].op = "none"
  /\ LET got == Get(polecats, call[p].name)
     IN /\ call' = [call EXCEPT ![p].seen = got.polecat,
                                ![p].polecat = got.polecat]
        /\ IF got.err # "" THEN PolecatFails(p, got.err)
           ELSE IF ~Guard(call[p].op, got.polecat.State)
           THEN PolecatFails(p, GuardError(call[p].op))
           ELSE /\ err' = err
                /\ pc' = [pc EXCEPT ![p] =
                            IF call[p].op \in {"Wake", "Sleep"}
                            THEN "SetState" ELSE "saveState"]
  /\ UNCHANGED <<ret, polecats>>
  /\ PolecatFrame

\* m.SetState(name, state) called by Wake and Sleep: it loads the polecat
\* again.
SetStateGet(p) ==
  /\ pc[p] = "SetState"
  /\ LET got == Get(polecats, call[p].name)
     IN /\ call' = [call EXCEPT ![p].polecat = got.polecat]
        /\ IF got.err # "" THEN PolecatFails(p, got.err)
           ELSE /\ err' = err
                /\ pc' = [pc EXCEPT ![p] = "saveState"]
  /\ UNCHANGED <<ret, polecats>>
  /\ PolecatFrame

\* The assignments and m.saveState(polecat): os.WriteFile replaces
\* state.json, cannot open it, or fails after truncating it.
SaveState(p) ==
  /\ pc[p] = "saveState"
  /\ \E outcome \in WriteOutcomes :
       LET polecat == Assign(call[p].op, call[p].polecat, call[p].issue,
                             clock)
       IN /\ polecats' =
               [polecats EXCEPT ![call[p].name] =
                  CASE outcome = "written" -> polecat
                    [] outcome = "not opened" -> @
                    [] outcome = "partial" -> GarbageState]
          /\ call' = [call EXCEPT ![p].wrote = outcome # "not opened"]
          /\ err' = [err EXCEPT ![p] =
                       IF outcome = "written" THEN "" ELSE "writing state"]
  /\ pc' = [pc EXCEPT ![p] = "return"]
  /\ UNCHANGED ret
  /\ PolecatFrame

PolecatReturn(p) ==
  /\ pc[p] = "return"
  /\ ret' = [ret EXCEPT ![p] =
               [op |-> call[p].op, name |-> call[p].name,
                issue |-> call[p].issue, err |-> err[p],
                seen |-> call[p].seen, wrote |-> call[p].wrote]]
  /\ pc' = [pc EXCEPT ![p] = "idle"]
  /\ err' = [err EXCEPT ![p] = ""]
  /\ UNCHANGED <<call, polecats>>
  /\ PolecatFrame

NextPolecats ==
  \/ \E p \in Procs : GetPolecat(p)
  \/ \E p \in Procs : SetStateGet(p)
  \/ \E p \in Procs : SaveState(p)
  \/ \E p \in Procs : PolecatReturn(p)

SpecPolecats == InitPolecats /\ [][NextPolecats]_vars

\* ------------------------------------------------------ the periodic sweep
\* A supervisor that marks accounts as feedback arrives and periodically
\* sweeps: WithLock(Load, ClearExpired, SaveUnlocked).  The supervisor is
\* the only caller and its writes succeed.
MaxSweepTicks == 4
SweepTick == 3 * 60
SweepResets == {"7pm", "11am", "garbage", ""}
SweepHandles == {"a"}

InitSweep ==
  /\ file = SeedFile
  /\ lockHolder = NoProc
  /\ clock = ClockStart
  /\ calls = 0
  /\ pc = [p \in Procs |-> "idle"]
  /\ call = [p \in Procs |-> NoCall]
  /\ st = [p \in Procs |-> NilState]
  /\ err = [p \in Procs |-> ""]
  /\ deferred = [p \in Procs |-> FALSE]
  /\ ret = [p \in Procs |-> NoResult]
  /\ keychain = NoKeychain
  /\ docs = NoDocs
  /\ sessions = NoSessions
  /\ polecats = NoPolecats

SweepFrame ==
  UNCHANGED <<calls, err, deferred, keychain, docs, sessions, polecats>>

\* MarkLimited(handle, resetsAt), from lock() to the deferred unlock().
SupervisorMarkLimited(handle, resetsAt) ==
  /\ pc[Scanner] = "idle"
  /\ LET state == Load(file).state
     IN file' = MarshalState(
                  [state EXCEPT !.Accounts =
                     MapPut(state.Accounts, handle,
                            LimitedEntry(state, handle, resetsAt, clock))])
  /\ call' = [call EXCEPT ![Scanner] =
                [NoCall EXCEPT !.op = "MarkLimited"]]
  /\ UNCHANGED <<lockHolder, clock, pc, st, ret>>
  /\ SweepFrame

\* MarkAvailable(handle), from lock() to the deferred unlock().
SupervisorMarkAvailable(handle) ==
  /\ pc[Scanner] = "idle"
  /\ LET state == Load(file).state
     IN file' = MarshalState(
                  [state EXCEPT !.Accounts =
                     MapPut(state.Accounts, handle,
                            AvailableEntry(state, handle))])
  /\ call' = [call EXCEPT ![Scanner] =
                [NoCall EXCEPT !.op = "MarkAvailable"]]
  /\ UNCHANGED <<lockHolder, clock, pc, st, ret>>
  /\ SweepFrame

\* The sweep takes the lock and loads the state.
SweepLoad ==
  /\ pc[Scanner] = "idle"
  /\ lockHolder = NoProc
  /\ lockHolder' = Scanner
  /\ st' = [st EXCEPT ![Scanner] = Load(file).state]
  /\ call' = [call EXCEPT ![Scanner] = [NoCall EXCEPT !.op = "WithLock"]]
  /\ pc' = [pc EXCEPT ![Scanner] = "sweep"]
  /\ UNCHANGED <<file, clock, ret>>
  /\ SweepFrame

\* ClearExpired(state) at time.Now(), SaveUnlocked(state), unlock.
SweepSave ==
  /\ pc[Scanner] = "sweep"
  /\ file' = MarshalState(Stamp(clearExpiredAt(st[Scanner], Now)))
  /\ st' = [st EXCEPT ![Scanner] = NilState]
  /\ lockHolder' = NoProc
  /\ pc' = [pc EXCEPT ![Scanner] = "idle"]
  /\ UNCHANGED <<clock, call, ret>>
  /\ SweepFrame

\* Time passes, up to MaxSweepTicks times.
TickSweep ==
  /\ clock < ClockStart + MaxSweepTicks * SweepTick
  /\ clock' = clock + SweepTick
  /\ UNCHANGED <<file, lockHolder, calls, pc, call, st, err, deferred, ret,
                 keychain, docs, sessions, polecats>>

Supervisor ==
  \/ \E h \in SweepHandles, r \in SweepResets : SupervisorMarkLimited(h, r)
  \/ \E h \in SweepHandles : SupervisorMarkAvailable(h)
  \/ SweepLoad
  \/ SweepSave

NextSweep ==
  \/ Supervisor
  \/ TickSweep

SpecSweep == InitSweep /\ [][NextSweep]_vars

\* Time passes without end.  The clock keeps the time of day only: the
\* resets the supervisor passes name no zone, so the sweep reads nothing
\* else of the current instant.  A sweep is over within one tick.
TickDaily ==
  /\ pc[Scanner] = "idle"
  /\ clock' = (clock + SweepTick) % MinutesPerDay
  /\ UNCHANGED <<file, lockHolder, calls, pc, call, st, err, deferred, ret,
                 keychain, docs, sessions, polecats>>

NextDaily ==
  \/ Supervisor
  \/ TickDaily

\* Time keeps advancing and the supervisor keeps sweeping: weak fairness
\* on the clock and on both steps of the sweep.  (SweepSave is enabled
\* exactly when the supervisor is at "sweep", and it changes pc.)
FairnessDaily ==
  /\ WF_vars(TickDaily)
  /\ WF_vars(SweepLoad)
  /\ \/ []<>(pc[Scanner] # "sweep")
     \/ []<><<SweepSave>>_vars

SpecDaily == InitSweep /\ [][NextDaily]_vars /\ FairnessDaily

\* ================================================================ properties
\* What a reader finds persisted: the accounts Load would return now (no
\* accounts when the file does not parse).
Persisted(f) ==
  IF f.kind \in {"garbage", "unreadable"} THEN MakeMap
  ELSE Load(f).state.Accounts

\* Process p performs its write in this step and the write succeeds.
Writes(p) == pc[p] = "write" /\ pc'[p] = "return" /\ err'[p] = ""

IsMark(p) == call[p].op \in {"MarkLimited", "MarkAvailable"}

\* p is between lock() and the deferred unlock() of a MarkLimited or
\* MarkAvailable call.
InMarkSection(p) ==
  IsMark(p) /\ deferred[p] /\ pc[p] \in {"load", "write", "return"}

\* Every handle but h is persisted after the step exactly as before it.
OthersKept(h) ==
  /\ DOMAIN Persisted(file').kv \ {h} = DOMAIN Persisted(file).kv \ {h}
  /\ \A g \in DOMAIN Persisted(file).kv \ {h} :
       Persisted(file').kv[g] = Persisted(file).kv[g]

\* C1: MarkLimited and MarkAvailable are atomic relative to each other: a
\* call is in its load-mutate-write section only while it holds the lock, no
\* two sections overlap, and each write persists the call's own status for
\* its handle and leaves every other handle as the last completed call left
\* it.
C1_MarkAtomic ==
  /\ [](\A p \in Procs :
          InMarkSection(p) =>
            /\ lockHolder = p
            /\ \A q \in Procs \ {p} : ~InMarkSection(q))
  /\ [][\A p \in Procs :
          (IsMark(p) /\ Writes(p)) =>
            /\ MapGet(Persisted(file'), call[p].handle).Status =
                 (IF call[p].op = "MarkLimited" THEN QuotaStatusLimited
                  ELSE QuotaStatusAvailable)
            /\ OthersKept(call[p].handle)]_vars

\* A MarkLimited has written one handle while a MarkAvailable on the other
\* handle waits for the lock.
C1_Witness ==
  \E p \in Procs, q \in Procs :
    /\ call[p].op = "MarkLimited" /\ pc[p] = "return" /\ err[p] = ""
    /\ deferred[p]
    /\ call[q].op = "MarkAvailable" /\ pc[q] = "lock"
    /\ call[q].handle # call[p].handle
    /\ call[p].handle \in DOMAIN Persisted(file).kv

\* C2: Load -> mutate -> SaveUnlocked inside WithLock is atomic: at the
\* callback's write the file still holds what the callback loaded, and the
\* state persisted is the state loaded plus the callback's mutation.
C2_WithLockAtomic ==
  [][\A p \in Procs :
       (call[p].op = "WithLock" /\ Writes(p)) =>
         /\ st[p] = Load(file).state
         /\ Load(file').state = Stamp(Mutate(call[p].fn, Load(file).state))]_vars

\* A callback has persisted its change while the other process, a writer,
\* waits for the lock.
C2_Witness ==
  \E p \in Procs, q \in Procs :
    /\ call[p].op = "WithLock" /\ call[p].fn.kind = "set"
    /\ pc[p] = "return" /\ err[p] = "" /\ deferred[p]
    /\ MapGet(Persisted(file), "a") = call[p].fn.entry
    /\ pc[q] = "lock" /\ call[q].op \in {"MarkLimited", "Save", "WithLock"}

\* C3: WithLock releases the lock on every exit path and returns the
\* callback's error unchanged: when a WithLock that took the lock returns,
\* the lock is free, any process waiting for it can take it, and the value
\* returned is the error the callback produced (none, or its error).
C3_WithLockReleases ==
  /\ [](\A p \in Procs : pc[p] = "idle" => lockHolder # p)
  /\ [][\A p \in Procs :
          (call[p].op = "WithLock" /\ deferred[p] /\ pc[p] = "return"
             /\ pc'[p] = "idle") =>
            /\ lockHolder' = NoProc
            /\ ret'[p].err = err[p]
            /\ \A q \in Procs : pc'[q] = "lock" => LockGranted(q)']_vars

\* A WithLock whose callback failed has returned the callback's error and
\* the other process now holds the lock.
C3_Witness ==
  \E p \in Procs : \E q \in Procs \ {p} :
    /\ ret[p].op = "WithLock" /\ ret[p].locked
    /\ ret[p].err = "test error"
    /\ pc[p] = "idle"
    /\ lockHolder = q

\* C4 as stated: a callback may call Save, the variant that takes the lock,
\* and the process never waits for the lock it holds itself.
C4_NeverWaitsOnOwnLock ==
  \A p \in Procs : ~(pc[p] = "lock" /\ deferred[p])

\* p itself holds the lock p is waiting for.
WaitsOnOwnLock(p) == pc[p] = "lock" /\ lockHolder = p

\* C4 amended: WithLock returns for every callback made of Load, in-memory
\* mutation and SaveUnlocked, unless another process holds the lock for
\* ever; the only holder that never releases is a process whose callback
\* called Save and waits for the lock its own WithLock holds.
C4_WithLockReturns ==
  \A p \in Procs :
    (call[p].op = "WithLock" /\ call[p].fn.kind \notin {"save", "saving"})
      ~> (pc[p] = "idle" \/ \E q \in Procs \ {p} : WaitsOnOwnLock(q))

\* A WithLock whose callback saved through SaveUnlocked has returned, and so
\* has the other process's WithLock.
C4_Witness ==
  \E p \in Procs : \E q \in Procs \ {p} :
    /\ ret[p].op = "WithLock" /\ ret[p].locked /\ ret[p].err = ""
    /\ ret[q].op = "WithLock" /\ ret[q].locked
    /\ pc[p] = "idle" /\ pc[q] = "idle"
    /\ file.kind = "json"

\* p's write in this step is one of the subsystem's status transitions.
IsTransition(p) ==
  IsMark(p) \/ (call[p].op = "WithLock" /\ call[p].fn.kind = "clearExpired")

\* C5: lastUsed of every handle survives every status transition of the
\* subsystem (MarkLimited, MarkAvailable, ClearExpired followed by a save).
C5_LastUsedKept ==
  [][\A p \in Procs :
       (IsTransition(p) /\ Writes(p)) =>
         \A h \in Handles :
           MapGet(Persisted(file'), h).LastUsed =
             MapGet(Persisted(file), h).LastUsed]_vars

\* The sweep has cleared an expired account that had been used.
C5_Witness ==
  \E p \in Procs :
    /\ call[p].op = "WithLock" /\ call[p].fn.kind = "clearExpired"
    /\ pc[p] = "return" /\ err[p] = ""
    /\ "a" \in DOMAIN Persisted(file).kv
    /\ Persisted(file).kv["a"].Status = QuotaStatusAvailable
    /\ Persisted(file).kv["a"].LastUsed = "2026-02-18T08:00:00Z"

\* C6: a successful MarkLimited(h, r) persists for h the status Limited, a
\* non-empty limitedAt that is the current time, resetsAt = r as given and
\* the lastUsed h had before; every other handle is unchanged.
C6_MarkLimited ==
  [][\A p \in Procs :
       (call[p].op = "MarkLimited" /\ Writes(p)) =>
         LET new == MapGet(Persisted(file'), call[p].handle)
         IN /\ call[p].handle \in DOMAIN Persisted(file').kv
            /\ new.Status = QuotaStatusLimited
            /\ new.LimitedAt # ""
            /\ new.LimitedAt = RFC3339(clock)
            /\ new.ResetsAt = call[p].resetsAt
            /\ new.LastUsed = MapGet(Persisted(file), call[p].handle).LastUsed
            /\ OthersKept(call[p].handle)]_vars

\* MarkLimited has limited a used account with a string the grammar rejects,
\* after the clock moved.
C6_Witness ==
  \E p \in Procs :
    /\ call[p].op = "MarkLimited" /\ call[p].resetsAt = "garbage"
    /\ pc[p] = "return" /\ err[p] = ""
    /\ clock > ClockStart
    /\ MapGet(Persisted(file), call[p].handle).ResetsAt = "garbage"
    /\ MapGet(Persisted(file), call[p].handle).LastUsed # ""

\* C7: a successful MarkAvailable(h) persists for h the status Available,
\* empty limitedAt and resetsAt and the lastUsed h had before, whatever the
\* status before; every other handle is unchanged.
C7_MarkAvailable ==
  [][\A p \in Procs :
       (call[p].op = "MarkAvailable" /\ Writes(p)) =>
         LET new == MapGet(Persisted(file'), call[p].handle)
         IN /\ call[p].handle \in DOMAIN Persisted(file').kv
            /\ new.Status = QuotaStatusAvailable
            /\ new.LimitedAt = ""
            /\ new.ResetsAt = ""
            /\ new.LastUsed = MapGet(Persisted(file), call[p].handle).LastUsed
            /\ OthersKept(call[p].handle)]_vars

\* MarkAvailable has cleared a Limited account that had a limitedAt, a
\* resetsAt and a lastUsed.
C7_Witness ==
  \E p \in Procs :
    /\ call[p].op = "MarkAvailable" /\ call[p].handle = "a"
    /\ pc[p] = "return" /\ err[p] = ""
    /\ st[p].Accounts.kv["a"].LastUsed = "2026-02-18T08:00:00Z"
    /\ Persisted(file).kv["a"] =
         [Status |-> QuotaStatusAvailable, LimitedAt |-> "", ResetsAt |-> "",
          LastUsed |-> "2026-02-18T08:00:00Z"]
    /\ Persisted(file).kv["b"].Status = QuotaStatusCooldown

C9_LoadMissing ==
  /\ [](\A p \in Procs :
          (ret[p].op = "Load" /\ ret[p].err = "") =>
            /\ ret[p].state # NilState
            /\ ~ret[p].state.Accounts.isNil)
  /\ [][\A p \in Procs :
          (pc[p] = "load" /\ pc'[p] # "load") =>
            /\ (err'[p] = "" => ~st'[p].Accounts.isNil)
            /\ (file.kind = "missing" =>
                  /\ err'[p] = ""
                  /\ st'[p].Version = CurrentQuotaVersion
                  /\ st'[p].Accounts = MakeMap)]_vars

\* A Load of a document without an accounts field has returned.
C9_Witness ==
  \E p \in Procs :
    /\ ret[p].op = "Load" /\ ret[p].err = ""
    /\ file = LegacyFile
    /\ ret[p].state.Accounts = MakeMap

\* C10: Load on content that does not parse returns an error and no state;
\* no Load returns a state together with an error, or no state without one.
C10_LoadCorrupt ==
  /\ [](\A p \in Procs :
          ret[p].op = "Load" =>
            (ret[p].err # "" <=> ret[p].state = NilState))
  /\ [][\A p \in Procs :
          (pc[p] = "load" /\ pc'[p] # "load" /\ file.kind = "garbage") =>
            /\ err'[p] # ""
            /\ st'[p] = NilState]_vars

\* A Load of a file that does not parse has returned its error.
C10_Witness ==
  \E p \in Procs :
    /\ ret[p].op = "Load" /\ ret[p].err = "parsing quota state"
    /\ ret[p].state = NilState
    /\ file = GarbageFile

\* The errors with which a call gives up before it has written anything.
AbortErrors ==
  {"acquiring quota lock", "reading quota state", "parsing quota state"}

\* C11: when MarkLimited, MarkAvailable or Save cannot take the lock, or
\* MarkLimited/MarkAvailable cannot read or parse the file, the call returns
\* that error, no step of the failing call changes the file, and a file that
\* cannot be read or parsed is replaced by nobody but a Save.
C11_AbortWritesNothing ==
  /\ [](\A p \in Procs :
          (call[p].op \in {"MarkLimited", "MarkAvailable", "Save"}
             /\ pc[p] = "return" /\ err[p] \in AbortErrors) =>
            st[p] = NilState)
  /\ [][\A p \in Procs :
          (call[p].op \in {"MarkLimited", "MarkAvailable", "Save"}
             /\ pc[p] # "return" /\ pc'[p] = "return"
             /\ err'[p] \in AbortErrors) => file' = file]_vars
  /\ [][\A p \in Procs :
          (call[p].op \in {"MarkLimited", "MarkAvailable", "Save"}
             /\ pc[p] = "return" /\ err[p] \in AbortErrors
             /\ pc'[p] = "idle") =>
            (ret'[p].err = err[p] /\ file' = file)]_vars
  /\ [][(file.kind \in {"garbage", "unreadable"} /\ file' # file) =>
          \E p \in Procs : call[p].op = "Save" /\ Writes(p)]_vars
  /\ [][\A p \in Procs :
          (IsMark(p) /\ pc[p] = "load" /\ pc'[p] # "load"
             /\ file.kind \in {"garbage", "unreadable"}) =>
            (pc'[p] = "return" /\ err'[p] \in AbortErrors)]_vars

\* A MarkLimited has returned the parse error, a Save the lock error, and
\* the file is still the one that does not parse.
C11_Witness ==
  \E p \in Procs : \E q \in Procs \ {p} :
    /\ ret[p].op = "MarkLimited" /\ ret[p].err = "parsing quota state"
    /\ ret[q].op = "Save" /\ ret[q].err = "acquiring quota lock"
    /\ file = GarbageFile

\* p has written inside its critical section and has not yet released the
\* lock.
WroteInSection(p) ==
  /\ call[p].op \in {"MarkLimited", "MarkAvailable", "WithLock"}
  /\ pc[p] = "return" /\ err[p] = "" /\ deferred[p] /\ lockHolder = p

\* C12: SaveUnlocked writes without the lock.  A caller that runs Load,
\* a mutation and SaveUnlocked outside WithLock never holds the lock and its
\* write is not held back by the holder; it is the only writer that can
\* change the file under a process that is inside its MarkLimited,
\* MarkAvailable or WithLock critical section.  (That such a write does
\* discard the holder's update is the reachable state C12_Witness.)
C12_SaveUnlockedTakesNoLock ==
  /\ [](\A q \in Procs : call[q].op = "SaveUnlocked" =>
          (~deferred[q] /\ lockHolder # q))
  /\ [][\A q \in Procs :
          (call[q].op = "SaveUnlocked" /\ pc[q] = "write" /\ pc'[q] # "write")
            => lockHolder' = lockHolder]_vars
  /\ [][\A p \in Procs :
          (deferred[p] /\ file' # file) =>
            \/ Writes(p)
            \/ \E q \in Procs \ {p} :
                 call[q].op = "SaveUnlocked" /\ Writes(q)]_vars

\* p marked handle "b" inside its critical section and still holds the
\* lock; q, which loaded before p wrote, has since written with SaveUnlocked
\* a mutation that does not concern "b"; the file no longer has p's entry.
C12_Witness ==
  \E p \in Procs : \E q \in Procs \ {p} :
    /\ WroteInSection(p)
    /\ call[p].op = "MarkLimited" /\ call[p].handle = "b"
    /\ call[q].op = "SaveUnlocked" /\ call[q].fn.kind = "set"
    /\ call[q].fn.handle = "a"
    /\ pc[q] = "return" /\ err[q] = ""
    /\ file = MarshalState(st[q])
    /\ MapGet(st[p].Accounts, "b").Status = QuotaStatusLimited
    /\ MapGet(Persisted(file), "b") # MapGet(st[p].Accounts, "b")

\* C13: MarkLimited(h, r) and MarkAvailable(h) on a handle with no entry,
\* the case of no file included, do not fail on the missing entry: the load
\* of a missing or parseable file goes on to the write, and the write
\* creates the entry with the status of the operation and an empty lastUsed.
C13_MarkCreatesEntry ==
  /\ [][\A p \in Procs :
          (IsMark(p) /\ pc[p] = "load" /\ pc'[p] # "load"
             /\ file.kind \in {"missing", "json"}) =>
            (pc'[p] = "write" /\ err'[p] = "")]_vars
  /\ [][\A p \in Procs :
          (IsMark(p) /\ Writes(p)
             /\ call[p].handle \notin DOMAIN Persisted(file).kv) =>
            /\ call[p].handle \in DOMAIN Persisted(file').kv
            /\ Persisted(file').kv[call[p].handle] =
                 IF call[p].op = "MarkLimited"
                 THEN [Status |-> QuotaStatusLimited,
                       LimitedAt |-> RFC3339(clock),
                       ResetsAt |-> call[p].resetsAt, LastUsed |-> ""]
                 ELSE [Status |-> QuotaStatusAvailable, LimitedAt |-> "",
                       ResetsAt |-> "", LastUsed |-> ""]]_vars
  /\ [](\A p \in Procs :
          (IsMark(p) /\ pc[p] = "return") =>
            err[p] \in AbortErrors \cup {"", "writing quota state"})

\* A MarkAvailable and a MarkLimited have both returned without error and
\* the file holds one handle available with every other field empty and the
\* other limited with an empty lastUsed.
C13_Witness ==
  \E p \in Procs : \E q \in Procs \ {p} :
    /\ ret[p].op = "MarkAvailable" /\ ret[p].err = ""
    /\ ret[q].op = "MarkLimited" /\ ret[q].err = ""
    /\ DOMAIN Persisted(file).kv = {"a", "b"}
    /\ \E h \in Handles :
         /\ Persisted(file).kv[h] =
              [Status |-> QuotaStatusAvailable, LimitedAt |-> "",
               ResetsAt |-> "", LastUsed |-> ""]
         /\ \A g \in Handles \ {h} :
              /\ Persisted(file).kv[g].Status = QuotaStatusLimited
              /\ Persisted(file).kv[g].LastUsed = ""

\* The handles of a list, and the lastUsed of a handle in a state.
Range(list) == {list[i] : i \in 1..Len(list)}
LastUsedOf(state, h) == MapGet(state.Accounts, h).LastUsed

\* C14: AvailableAccounts returns each handle at most once, exactly the
\* handles whose status is available or empty, in an order in which no
\* handle is followed by one with a smaller lastUsed and every handle with
\* an empty lastUsed comes before every handle with a non-empty one; the
\* state it was given is as before.
C14_AvailableAccounts ==
  LET r == ret[Scanner]
      state == r.before
      list == r.list
  IN r.op = "AvailableAccounts" =>
       /\ \A i, j \in 1..Len(list) : list[i] = list[j] => i = j
       /\ Range(list) =
            {h \in DOMAIN state.Accounts.kv :
               state.Accounts.kv[h].Status \in {QuotaStatusAvailable, ""}}
       /\ \A i, j \in 1..Len(list) :
            i < j =>
              /\ ~StringGreater(LastUsedOf(state, list[i]),
                                LastUsedOf(state, list[j]))
              /\ LastUsedOf(state, list[j]) = "" =>
                   LastUsedOf(state, list[i]) = ""
       /\ st[Scanner] = state

\* Three accounts count as available, one of them with an unset status and
\* one never used; the never-used one is first and the list is c, a, b.
C14_Witness ==
  LET r == ret[Scanner]
  IN /\ r.op = "AvailableAccounts"
     /\ r.list = <<"c", "a", "b">>
     /\ LastUsedOf(r.before, "c") = ""
     /\ DOMAIN r.before.Accounts.kv = {"a", "b", "c"}
     /\ r.before.Accounts.kv["a"].Status = ""
     /\ LastUsedOf(r.before, "a") = "2025-01-01T02:00:00Z"
     /\ LastUsedOf(r.before, "b") = "2025-01-01T03:00:00Z"

\* The handles AvailableAccounts returns for a state, whatever the order.
AvailableHandles(state) ==
  UNION {Range(AvailableAccounts(state, keys)) : keys \in MapOrders(state)}

\* C15: LimitedAccounts returns each handle at most once and exactly the
\* handles whose status is limited; a handle in cooldown is in neither the
\* limited nor the available list, and no handle is in both.
C15_LimitedAccounts ==
  LET r == ret[Scanner]
      state == r.before
      list == r.list
  IN r.op = "LimitedAccounts" =>
       /\ \A i, j \in 1..Len(list) : list[i] = list[j] => i = j
       /\ Range(list) =
            {h \in DOMAIN state.Accounts.kv :
               state.Accounts.kv[h].Status = QuotaStatusLimited}
       /\ \A h \in DOMAIN state.Accounts.kv :
            state.Accounts.kv[h].Status = QuotaStatusCooldown =>
              (h \notin Range(list) /\ h \notin AvailableHandles(state))
       /\ Range(list) \cap AvailableHandles(state) = {}
       /\ st[Scanner] = state

\* One account is limited, one in cooldown and one available: the limited
\* list is the limited one alone.
C15_Witness ==
  LET r == ret[Scanner]
  IN /\ r.op = "LimitedAccounts"
     /\ r.list = <<"b">>
     /\ MapGet(r.before.Accounts, "a").Status = QuotaStatusCooldown
     /\ MapGet(r.before.Accounts, "c").Status = QuotaStatusAvailable
     /\ AvailableHandles(r.before) = {"c"}

\* The entry of a handle that has just been put under tracking.
FreshEntry ==
  [Status |-> QuotaStatusAvailable, LimitedAt |-> "", ResetsAt |-> "",
   LastUsed |-> ""]

\* C16: EnsureAccountsTracked gives every registered handle without an
\* entry the entry {available, other fields empty}, leaves every entry
\* that existed as it was, removes none, and changes nothing when applied
\* again with the same registry.
C16_EnsureAccountsTracked ==
  LET r == ret[Scanner]
      before == r.before.Accounts.kv
      after == st[Scanner].Accounts.kv
  IN r.op = "EnsureAccountsTracked" =>
       /\ DOMAIN after = DOMAIN before \cup r.accounts
       /\ \A h \in DOMAIN before : after[h] = before[h]
       /\ \A h \in r.accounts \ DOMAIN before : after[h] = FreshEntry
       /\ st[Scanner].Version = r.before.Version
       /\ EnsureAccountsTracked(st[Scanner], r.accounts) = st[Scanner]

\* The registry names a tracked limited account and two accounts the state
\* did not have; the state also keeps an account the registry does not name.
C16_Witness ==
  LET r == ret[Scanner]
  IN /\ r.op = "EnsureAccountsTracked"
     /\ r.accounts = {"a", "b"}
     /\ DOMAIN r.before.Accounts.kv = {"a", "c"}
     /\ r.before.Accounts.kv["a"].Status = QuotaStatusLimited
     /\ r.before.Accounts.kv["c"].Status = QuotaStatusCooldown
     /\ DOMAIN st[Scanner].Accounts.kv = {"a", "b", "c"}

\* The entry e is limited with a reset time that parses to an instant
\* strictly before now.
Due(e, now) ==
  /\ e.Status = QuotaStatusLimited
  /\ e.ResetsAt # ""
  /\ ParseResetTime(e.ResetsAt, now).ok
  /\ now.t > ParseResetTime(e.ResetsAt, now).t

\* The sweep took h from limited to available, emptied limitedAt and
\* resetsAt and kept lastUsed.
Cleared(before, after, h) ==
  /\ before[h].Status = QuotaStatusLimited
  /\ after[h] = [Status |-> QuotaStatusAvailable, LimitedAt |-> "",
                 ResetsAt |-> "", LastUsed |-> before[h].LastUsed]

\* C17: ClearExpired takes an account to available, with limitedAt and
\* resetsAt emptied and lastUsed kept, exactly when the account is limited,
\* its resetsAt is non-empty and parses, and now is strictly after the parsed
\* instant; the count it returns is the number of accounts it so changed.
C17_ClearExpired ==
  LET r == ret[Scanner]
      before == r.before.Accounts.kv
      after == st[Scanner].Accounts.kv
  IN r.op = "ClearExpired" =>
       /\ DOMAIN after = DOMAIN before
       /\ \A h \in DOMAIN before : Cleared(before, after, h) <=> Due(before[h], r.now)
       /\ r.count = Cardinality({h \in DOMAIN before : Cleared(before, after, h)})

\* At 19:00 one account limited until 11am is cleared, and the accounts
\* limited until 7pm and until 11am in the zone eight hours behind, whose
\* reset instant is now, stay limited; the count is one.
C17_Witness ==
  LET r == ret[Scanner]
      before == r.before.Accounts.kv
      after == st[Scanner].Accounts.kv
  IN /\ r.op = "ClearExpired"
     /\ r.now.t = 19 * 60
     /\ r.count = 1
     /\ DOMAIN before = {"a", "b", "c"}
     /\ before["a"].Status = QuotaStatusLimited /\ before["a"].ResetsAt = "11am"
     /\ before["b"].Status = QuotaStatusLimited /\ before["b"].ResetsAt = "7pm"
     /\ before["c"].Status = QuotaStatusLimited
     /\ before["c"].ResetsAt = "11am (Z)"
     /\ after["a"].Status = QuotaStatusAvailable
     /\ after["a"].LastUsed = "2025-01-01T03:00:00Z"
     /\ after["b"] = before["b"] /\ after["c"] = before["c"]

\* C18: ClearExpired leaves as they are the accounts that are not limited,
\* the limited ones with an empty resetsAt and the limited ones whose
\* resetsAt does not parse, counts none of them, and leaves the quota file
\* as it is.
C18_ClearExpiredLeaves ==
  /\ [](LET r == ret[Scanner]
            before == r.before.Accounts.kv
            after == st[Scanner].Accounts.kv
        IN r.op = "ClearExpired" =>
             /\ DOMAIN after = DOMAIN before
             /\ \A h \in DOMAIN before :
                  (\/ before[h].Status # QuotaStatusLimited
                   \/ before[h].ResetsAt = ""
                   \/ ~ParseResetTime(before[h].ResetsAt, r.now).ok) =>
                    after[h] = before[h]
             /\ r.count <=
                  Cardinality({h \in DOMAIN before :
                                 /\ before[h].Status = QuotaStatusLimited
                                 /\ before[h].ResetsAt # ""
                                 /\ ParseResetTime(before[h].ResetsAt,
                                                   r.now).ok})
             /\ st[Scanner].Version = r.before.Version)
  /\ [][ret'[Scanner].op = "ClearExpired" => file' = file]_vars

\* At 20:00 the sweep meets an account in cooldown whose reset time has
\* passed, a limited one whose reset time does not parse and a limited one
\* with none: nothing changes and the count is zero.
C18_Witness ==
  LET r == ret[Scanner]
      before == r.before.Accounts.kv
  IN /\ r.op = "ClearExpired"
     /\ r.now.t = 20 * 60
     /\ r.count = 0
     /\ DOMAIN before = {"a", "b", "c"}
     /\ before["a"].Status = QuotaStatusCooldown /\ before["a"].ResetsAt = "11am"
     /\ before["b"].Status = QuotaStatusLimited
     /\ before["b"].ResetsAt = "garbage"
     /\ before["c"].Status = QuotaStatusLimited /\ before["c"].ResetsAt = ""
     /\ st[Scanner] = r.before

\* The offset of the zone a parse resolves in: the zone the text names when
\* it loads, else the zone of the reference.
ResolutionOffset(r) ==
  IF r.arg.zone = <<" ", "(", "Z", ")">> THEN ZoneOffset(<<"Z">>)
  ELSE r.reference.off

\* The calendar day, hour and minute of instant t at offset off.
DayAt(t, off) == (t + off) \div MinutesPerDay
HourAt(t, off) == ((t + off) % MinutesPerDay) \div 60
MinuteAt(t, off) == (t + off) % 60

\* C19: for an hour 1..12, an optional minute 00..59 and a meridiem in any
\* letter case, ParseResetTime succeeds and the time of day of the result in
\* the resolution zone has hour 0 for 12am, 12 for 12pm, h + 12 for any
\* other pm hour and h for any other am hour, and the minute written, or 0.
C19_MeridiemHour ==
  LET r == ret[Scanner]
      h == r.arg.hour
      pm == r.arg.meridiem[1] \in {"p", "P"}
      off == ResolutionOffset(r)
  IN (/\ r.op = "ParseResetTime"
      /\ h \in 1..12
      /\ r.arg.hasMinute => r.arg.minute \in 0..59) =>
       /\ r.res.ok
       /\ HourAt(r.res.t, off) =
            IF pm THEN (IF h = 12 THEN 12 ELSE h + 12)
            ELSE (IF h = 12 THEN 0 ELSE h)
       /\ MinuteAt(r.res.t, off) =
            IF r.arg.hasMinute THEN r.arg.minute ELSE 0

\* "12:59 AM (Z)", with the reference in another zone, has been parsed to
\* 00:59 in the zone of the text.
C19_Witness ==
  LET r == ret[Scanner]
  IN /\ r.op = "ParseResetTime"
     /\ r.arg.hour = 12 /\ r.arg.hasMinute /\ r.arg.minute = 59
     /\ r.arg.meridiem = <<"A", "M">>
     /\ r.arg.zone = <<" ", "(", "Z", ")">>
     /\ r.reference.off = 9 * 60
     /\ r.res.ok
     /\ HourAt(r.res.t, ZoneOffset(<<"Z">>)) = 0
     /\ MinuteAt(r.res.t, ZoneOffset(<<"Z">>)) = 59

\* C20: whatever text of one or two hour digits, optional two-digit minute
\* and meridiem is accepted, and whatever the reference instant, the result
\* lies on the calendar date the reference has in the resolution zone.
C20_AlwaysToday ==
  LET r == ret[Scanner]
  IN (r.op = "ParseResetTime" /\ r.res.ok) =>
       DayAt(r.res.t, ResolutionOffset(r)) =
         DayAt(r.reference.t, ResolutionOffset(r))

\* The text s has, from position i on, one or two digits, then optionally a
\* colon and two digits, then gap spaces, then am or pm in any letter case.
\* The result is the position after the meridiem, or 0.
MeridiemEnds(s, i, gaps) ==
  {e \in 1..(Len(s) + 1) :
     \E nh \in 1..2, nm \in {0, 3}, g \in gaps :
       /\ e = i + nh + nm + g + 2
       /\ \A k \in i..(i + nh - 1) : IsDigit(s[k])
       /\ nm = 3 => (s[i + nh] = ":" /\ IsDigit(s[i + nh + 1])
                       /\ IsDigit(s[i + nh + 2]))
       /\ \A k \in (i + nh + nm)..(i + nh + nm + g - 1) : s[k] = " "
       /\ ToLower(s[e - 2]) \in {"a", "p"}
       /\ ToLower(s[e - 1]) = "m"}

\* The leading part of s is <1-2 digit hour>[:<2-digit minute>]<am|pm>.
LeadingPartMatches(s) == MeridiemEnds(s, 1, {0}) # {}

\* After the spaces s starts with, s has <1-2 digit hour>[:<2-digit minute>],
\* any number of spaces and <am|pm>, and no letter, digit or underscore
\* follows.
PatternMatches(s) ==
  \E i \in 1..(Len(s) + 1) :
    /\ \A k \in 1..(i - 1) : s[k] = " "
    /\ \E e \in MeridiemEnds(s, i, 0..Len(s)) :
         e = Len(s) + 1 \/ ~IsWord(s[e])

\* The reset strings accounts of the model carry.
ResetStrings ==
  {"", "7pm", "11am", "11am (Z)", "9PM (Z)", "3:30pm", "12am", "12pm",
   "garbage", "2025-01-01T13:00:00Z", "7:00 PM PST"}

\* A state with one account, limited, with the reset string str.
OneLimited(str) ==
  [Version |-> CurrentQuotaVersion,
   Accounts |-> MapPut(MakeMap, "a",
                       [Status |-> QuotaStatusLimited,
                        LimitedAt |-> "2025-01-01T00:00:00Z",
                        ResetsAt |-> str, LastUsed |-> ""])]

\* ClearExpired changes and counts no account whose reset string fails to
\* parse, at the reference instant or a day later.
SweepLeavesUnparsed(reference) ==
  \A str \in ResetStrings :
    ~ParseResetTime(str, reference).ok =>
      \A now \in {reference,
                  [reference EXCEPT !.t = reference.t + MinutesPerDay]} :
        /\ clearExpiredAt(OneLimited(str), now) = OneLimited(str)
        /\ ExpiredHandles(OneLimited(str), now) = {}

\* C21 as stated: ParseResetTime returns an error and no instant for every
\* string whose leading part does not match
\* <1-2 digit hour>[:<2-digit minute>]<am|pm>.
C21_LeadingPartRejected ==
  LET r == ret[Scanner]
  IN (r.op = "ParseResetTime" /\ ~LeadingPartMatches(r.text)) => ~r.res.ok

\* C21, amended: ParseResetTime returns an error and no instant exactly for
\* the strings that, after the spaces they start with, do not have
\* <1-2 digit hour>[:<2-digit minute>], optional spaces and <am|pm> ending
\* at a word boundary; it returns an instant for every other string.
\* ClearExpired leaves an account whose reset string gets the error as it is.
C21_ParseError ==
  LET r == ret[Scanner]
  IN r.op = "ParseResetTime" =>
       /\ r.res.ok <=> PatternMatches(r.text)
       /\ ~r.res.ok => DOMAIN r.res = {"ok"}
       /\ SweepLeavesUnparsed(r.reference)

\* "1:1pm", whose minute has one digit, has been rejected.
C21_Witness ==
  LET r == ret[Scanner]
  IN /\ r.op = "ParseResetTime"
     /\ r.text = <<"1", ":", "1", "p", "m">>
     /\ ~r.res.ok
     /\ ~ParseResetTime("garbage", r.reference).ok

\* Process p has computed a service name.
Named(p) == ret[p].op = "KeychainServiceName"

\* The paths written in full that are not the default config dir.
OtherFull == {WorkFull, PathX, PathY}

OnlyRotator(p) ==
  \A q \in Procs \ {p} : pc[q] = "idle" /\ ret[q].op = "none"

\* Process p's swap, or its restore, has returned and p has not called again.
Swapped(p) == pc[p] = "idle" /\ ret[p].op = "SwapKeychainCredential"
Restored(p) == pc[p] = "idle" /\ ret[p].op = "RestoreKeychainToken"

\* C23: when both secrets are readable and the swap succeeds, the target's
\* entry holds the source's secret, every other entry is as before, and the
\* backup carries the target's service name and the target's secret from
\* before the swap.
C23_SwapCredential ==
  \A p \in Procs :
    (/\ Swapped(p) /\ OnlyRotator(p) /\ ret[p].err = ""
     /\ ret[p].before[ret[p].targetSvc] # NoEntry
     /\ ret[p].before[ret[p].sourceSvc] # NoEntry) =>
      /\ keychain = [ret[p].before EXCEPT
                       ![ret[p].targetSvc] = ret[p].before[ret[p].sourceSvc]]
      /\ ret[p].backup =
           KeychainCredential(ret[p].targetSvc,
                              ret[p].before[ret[p].targetSvc])

\* C24: a swap followed by the restore of its backup, both successful and
\* with no other writer, leaves the keychain exactly as it was before the
\* swap.
C24_RoundTrip ==
  \A p \in Procs :
    (/\ Restored(p) /\ OnlyRotator(p) /\ ret[p].err = ""
     /\ ret[p].backup # NilBackup) =>
      keychain = ret[p].before

\* C25: a swap whose target or source had no readable secret returns an
\* error and no backup and has written nothing; the target is read first, so
\* a missing target is what the error names even when the source is missing
\* too.
C25_UnreadableSecret ==
  \A p \in Procs :
    (/\ Swapped(p) /\ OnlyRotator(p)
     /\ \/ ret[p].before[ret[p].targetSvc] = NoEntry
        \/ ret[p].before[ret[p].sourceSvc] = NoEntry) =>
      /\ ret[p].err =
           IF ret[p].before[ret[p].targetSvc] = NoEntry
           THEN "backing up target token" ELSE "reading source token"
      /\ ret[p].backup = NilBackup
      /\ keychain = ret[p].before

\* The target's secret was read, the source has none: the swap returned the
\* source error and no backup, and the keychain is as before.
C25_Witness ==
  \E p \in Procs :
    /\ Swapped(p) /\ OnlyRotator(p)
    /\ ret[p].before[ret[p].targetSvc] # NoEntry
    /\ ret[p].before[ret[p].sourceSvc] = NoEntry
    /\ ret[p].err = "reading source token"
    /\ ret[p].backup = NilBackup
    /\ keychain = ret[p].before

\* C26: no step of a swap or a restore reads or changes the holder of the
\* quota lock, and the backup a swap captures is whatever the target's entry
\* holds when it is read, another rotation's write included.
C26_NotSerialised ==
  [][/\ lockHolder' = lockHolder
     /\ \A p \in Procs :
          (pc[p] = "readTarget" /\ pc'[p] = "readSource") =>
            call'[p].backupToken =
              TrimSpace(keychain[call[p].targetSvc] \o <<"\n">>)]_vars

\* Two processes swapped the same target concurrently and both restored
\* without error: the backup of one is the secret the other wrote, and the
\* target does not hold its original secret.
C26_Witness ==
  \E p \in Procs : \E q \in Procs \ {p} :
    /\ Restored(p) /\ Restored(q)
    /\ ret[p].err = "" /\ ret[q].err = ""
    /\ ret[p].backup # NilBackup /\ ret[q].backup # NilBackup
    /\ ret[p].targetSvc = ret[q].targetSvc
    /\ ret[p].before = ret[q].before
    /\ ret[p].before[ret[p].targetSvc] = <<"d">>
    /\ ret[p].before[ret[p].sourceSvc] = <<"x">>
    /\ ret[p].backup.Token = <<"d">>
    /\ ret[q].backup.Token = <<"x">>
    /\ keychain[ret[p].targetSvc] = <<"x">>

\* ---------------------------------------------------- identity documents
\* Process p is the only one that has touched the identity documents.
OnlyEditor(p) ==
  \A q \in Procs \ {p} :
    ret[q].op \notin {"SwapOAuthAccount", "RestoreOAuthAccount"}

SwappedOAuth(p) == ret[p].op = "SwapOAuthAccount"
RestoredOAuth(p) == ret[p].op = "RestoreOAuthAccount"
TargetPath(p) == ClaudeJson(ret[p].targetConfigDir)
SourcePath(p) == ClaudeJson(ret[p].sourceConfigDir)

\* Both documents were JSON objects and the source had the field.
BothParse(p) ==
  /\ ret[p].before[TargetPath(p)].kind = "json"
  /\ ret[p].before[SourcePath(p)].kind = "json"
  /\ "oauthAccount" \in DOMAIN ret[p].before[SourcePath(p)].fields

C28_NoOpOrError ==
  \A p \in Procs :
    (SwappedOAuth(p) /\ OnlyEditor(p)) =>
      LET old == ret[p].before[TargetPath(p)]
          src == ret[p].before[SourcePath(p)]
      IN /\ (old = MissingDoc \/ src = MissingDoc) =>
              /\ ret[p].err = "" /\ ret[p].backup = NilRaw
              /\ docs = ret[p].before
         /\ ret[p].err # "" =>
              /\ \/ old \in {UnreadableDoc, GarbageDoc}
                 \/ src \in {UnreadableDoc, GarbageDoc}
                 \/ /\ src.kind = "json"
                    /\ "oauthAccount" \notin DOMAIN src.fields
              /\ docs = ret[p].before

\* C29: RestoreKeychainToken(nil) and RestoreOAuthAccount(_, nil) succeed
\* whatever the keychain and the document are and change nothing; a
\* successful RestoreOAuthAccount with a backup sets oauthAccount to the
\* backup and leaves every other field and every other document as they
\* were.
C29_Restore ==
  \A p \in Procs :
    /\ (Restored(p) /\ ret[p].backup = NilBackup) =>
         ret[p].err = "" /\ keychain = ret[p].before
    /\ (RestoredOAuth(p) /\ OnlyEditor(p) /\ ret[p].backup = NilRaw) =>
         ret[p].err = "" /\ docs = ret[p].atRestore
    /\ (/\ RestoredOAuth(p) /\ OnlyEditor(p) /\ ret[p].backup # NilRaw
        /\ ret[p].err = "") =>
         LET old == ret[p].atRestore[TargetPath(p)]
             new == docs[TargetPath(p)]
         IN /\ old.kind = "json" /\ new.kind = "json"
            /\ DOMAIN new.fields = DOMAIN old.fields \cup {"oauthAccount"}
            /\ new.fields["oauthAccount"] = ret[p].backup.raw
            /\ \A n \in DOMAIN old.fields \ {"oauthAccount"} :
                 new.fields[n] = old.fields[n]
            /\ \A path \in IdentityPaths \ {TargetPath(p)} :
                 docs[path] = ret[p].atRestore[path]

\* One process restored a nil keychain backup; the other restored a nil
\* oauthAccount although the target's document is unreadable: both succeeded
\* and nothing changed.
C29_Witness ==
  \E p \in Procs : \E q \in Procs \ {p} :
    /\ Restored(p) /\ ret[p].backup = NilBackup /\ ret[p].err = ""
    /\ keychain = ret[p].before
    /\ RestoredOAuth(q) /\ ret[q].backup = NilRaw /\ ret[q].err = ""
    /\ ret[q].atRestore[TargetPath(q)] = UnreadableDoc
    /\ docs = ret[q].atRestore

\* ------------------------------------------------------- token validation
Validated(p) == ret[p].op = "ValidateKeychainToken"

\* The secret stored for the validated config dir, and what a read returns.
StoredSecret(p) == ret[p].before.keychain[ServiceOf(ret[p].configDir)]
Readable(p) == StoredSecret(p) # NoEntry
SecretText(p) == TrimSpace(StoredSecret(p) \o <<"\n">>)

\* The numeric expiry of a structured credential, and the numeric expiry
\* claim of a three-part token.
CredentialExpiry(p) == UnmarshalInt64(SecretText(p), KeyExpiresAt)
HasCredentialExpiry(p) ==
  Readable(p) /\ ~CredentialExpiry(p).err /\ CredentialExpiry(p).present
TokenExpiry(p) ==
  UnmarshalInt64(DecodeString(MiddlePart(SecretText(p))).out, KeyExp)
HasTokenExpiry(p) ==
  /\ Readable(p) /\ PartCount(SecretText(p)) = 3
  /\ ~DecodeString(MiddlePart(SecretText(p))).err
  /\ ~TokenExpiry(p).err /\ TokenExpiry(p).present

\* The three cases of rejection: (a), otherwise (b), otherwise (c).
CredentialExpired(p) ==
  HasCredentialExpiry(p) /\ CredentialExpiry(p).value <= ret[p].now
TokenExpired(p) ==
  /\ ~CredentialExpired(p)
  /\ HasTokenExpiry(p) /\ TokenExpiry(p).value <= ret[p].now
ProbeUnauthorized(p) ==
  ~CredentialExpired(p) /\ ~TokenExpired(p) /\ ret[p].probe = "401"

\* C30: ValidateKeychainToken returns an error only when the credential's
\* expiry has passed, or otherwise the token's expiry claim has passed, or
\* otherwise the probe was answered 401; it reports valid when the secret
\* is unreadable or empty, when the expiry it finds is in the future, and
\* when the probe meets another status, a network error or a timeout; and
\* keychain, identity documents and quota file are as they were.
C30_FailOpenReadOnly ==
  \A p \in Procs :
    Validated(p) =>
      /\ ret[p].err # "" =>
           CredentialExpired(p) \/ TokenExpired(p) \/ ProbeUnauthorized(p)
      /\ (~Readable(p) \/ SecretText(p) = <<>>) => ret[p].err = ""
      /\ (HasCredentialExpiry(p) /\ CredentialExpiry(p).value > ret[p].now) =>
           ret[p].err = ""
      /\ (/\ ~HasCredentialExpiry(p) /\ HasTokenExpiry(p)
          /\ TokenExpiry(p).value > ret[p].now) => ret[p].err = ""
      /\ (ret[p].probed /\ ret[p].probe # "401") => ret[p].err = ""
      /\ Stores = ret[p].before

\* One process validated a token of neither form that the API answered
\* with 401 and got the error; the other validated a config dir without a
\* keychain entry and was told valid; nothing was written.
C30_Witness ==
  \E p \in Procs : \E q \in Procs \ {p} :
    /\ Validated(p) /\ Validated(q)
    /\ StoredSecret(p) = <<"s", "k">> /\ ret[p].probe = "401"
    /\ ret[p].err = "token rejected by API (HTTP 401)"
    /\ StoredSecret(q) = NoEntry /\ ret[q].err = ""
    /\ Stores = ret[p].before

\* The expiry the validation goes by: the credential's if it has one, else
\* the token's.
Undecided(p) == Readable(p) /\ SecretText(p) # <<>>
DecidesBy(p, has, value) ==
  has => /\ ~ret[p].probed
         /\ ret[p].err # "" <=> value <= ret[p].now

\* C31: whenever the secret carries a numeric expiry, as the field of a
\* credential or as the claim of a three-part token, the validation goes by
\* that expiry alone and sends no probe; the probe is sent only when
\* neither form yields an expiry.
C31_ExpiryDecides ==
  \A p \in Procs :
    Validated(p) =>
      /\ DecidesBy(p, HasCredentialExpiry(p), CredentialExpiry(p).value)
      /\ DecidesBy(p, ~HasCredentialExpiry(p) /\ HasTokenExpiry(p),
                   TokenExpiry(p).value)
      /\ ret[p].probed => ~HasCredentialExpiry(p) /\ ~HasTokenExpiry(p)

\* C31, amended: an expiry counts when it is a positive integer.  Whenever
\* the credential carries one the validation goes by it alone; otherwise,
\* whenever the three-part token carries one, by that; no probe is sent on
\* either path, and the probe is sent exactly when the secret is readable,
\* not empty and neither form yields a positive integer expiry.
C31_PositiveExpiryDecides ==
  \A p \in Procs :
    Validated(p) =>
      LET byCred == HasCredentialExpiry(p) /\ CredentialExpiry(p).value > 0
          byToken == /\ ~byCred
                     /\ HasTokenExpiry(p) /\ TokenExpiry(p).value > 0
      IN /\ DecidesBy(p, byCred, CredentialExpiry(p).value)
         /\ DecidesBy(p, byToken, TokenExpiry(p).value)
         /\ ret[p].probed <=> (Undecided(p) /\ ~byCred /\ ~byToken)

\* One process validated a credential that expires in the future while the
\* API would have answered 401: valid, no probe.  The other validated a
\* token whose claim has passed while the API would not have answered:
\* expired, no probe.
C31_Witness ==
  \E p \in Procs : \E q \in Procs \ {p} :
    /\ Validated(p) /\ Validated(q)
    /\ StoredSecret(p) = Object(KeyExpiresAt, ExpiryFuture)
    /\ ret[p].probe = "401" /\ ret[p].err = "" /\ ~ret[p].probed
    /\ StoredSecret(q) = JWT(Object(KeyExp, ExpiryPast))
    /\ ret[q].probe = "timeout" /\ ret[q].err = "JWT expired"
    /\ ~ret[q].probed

Killed == call[Scanner].killed

\* C33: in both modes the Deacon is killed before any other session, the
\* Mayor after every other session, only gt-* sessions are killed, and in
\* graceful mode nothing is killed before every listed session was
\* interrupted and asked for its handoff and the wait has run out.
C33_ShutdownOrder ==
  call[Scanner].op = "gt shutdown" =>
    /\ \A i \in 1..Len(Killed) :
         /\ Killed[i] = DeaconSessionName => i = 1
         /\ Killed[i] = MayorSessionName => i = Len(Killed)
         /\ HasPrefix(Killed[i], GtPrefix)
    /\ (call[Scanner].graceful /\ Killed # <<>>) =>
         /\ call[Scanner].interrupted = call[Scanner].gtSessions
         /\ call[Scanner].asked = call[Scanner].gtSessions
         /\ call[Scanner].remaining <= 0

\* A graceful shutdown with --wait 7 has returned: it killed the Deacon
\* first, then the two other agents, then the Mayor, and the session of
\* somebody else is still there.
C33_Witness ==
  /\ pc[Scanner] = "idle"
  /\ ret[Scanner].op = "gt shutdown"
  /\ ret[Scanner].graceful
  /\ call[Scanner].shutdownWait = 7
  /\ Len(ret[Scanner].killed) = 4
  /\ ret[Scanner].killed[1] = DeaconSessionName
  /\ ret[Scanner].killed[4] = MayorSessionName
  /\ <<"g", "t">> \in sessions

\* The states an operation is allowed from, and what it leaves persisted.
AllowedFrom(op) ==
  CASE op = "Wake" -> {"idle"}
    [] op = "Sleep" -> {"active"}
    [] op = "Finish" -> {"working", "done", "stuck"}
    [] op = "Reset" -> {"idle", "active", "working", "done", "stuck"}
    [] op = "AssignIssue" -> {"idle", "active", "working", "done", "stuck"}

ResultState(op) ==
  CASE op = "Wake" -> "active"
    [] op = "AssignIssue" -> "working"
    [] OTHER -> "idle"

IssueAsClaimed(op, issue, before, after) ==
  CASE op \in {"Finish", "Reset"} -> after = ""
    [] op = "AssignIssue" -> after = issue
    [] OTHER -> after = before

C35_WritesStampVersion ==
  [][\A p \in Procs :
       Writes(p) =>
         /\ file'.kind = "json"
         /\ file'.hasVersion
         /\ file'.version = CurrentQuotaVersion]_vars

\* The same for the writes of Save and SaveUnlocked alone.
C35_SavesStampVersion ==
  [][\A p \in Procs :
       (Writes(p) /\ call[p].op \in {"Save", "WithLock"}) =>
         /\ file'.kind = "json"
         /\ file'.hasVersion
         /\ file'.version = CurrentQuotaVersion]_vars

\* The instants a LimitedAt of the sweep model can name, and the instant a
\* LimitedAt names.
SweepInstants ==
  {9 * 60} \cup {ClockStart + k * SweepTick : k \in 0..(MaxSweepTicks + 1)}
LimitedInstant(limitedAt) ==
  CHOOSE t \in SweepInstants : RFC3339(t) = limitedAt

\* The first occurrence of the time of day resetsAt at or after t.
RealReset(t, resetsAt) ==
  LET sameDay == ParseResetTime(resetsAt, [t |-> t, off |-> LocalOffset]).t
  IN IF sameDay >= t THEN sameDay ELSE sameDay + MinutesPerDay

\* The persisted entry of h has a reset time the grammar can parse.
Parseable(entry) ==
  /\ entry.ResetsAt # ""
  /\ ParseResetTime(entry.ResetsAt, Now).ok

\* The sweep writes in this step.
Sweeps == pc[Scanner] = "sweep" /\ pc'[Scanner] = "idle"

\* C36: a sweep never makes an account Available before the first
\* occurrence of its reset time of day at or after the instant it was
\* marked Limited.
C36_NotClearedEarly ==
  [][Sweeps =>
       \A h \in DOMAIN Persisted(file).kv :
         LET before == Persisted(file).kv[h]
             after == Persisted(file').kv[h]
         IN (/\ before.Status = QuotaStatusLimited
             /\ Parseable(before)
             /\ after.Status = QuotaStatusAvailable) =>
              clock >= RealReset(LimitedInstant(before.LimitedAt),
                                 before.ResetsAt)]_vars

\* The persisted entry of handle h.
Entry(h) == MapGet(Persisted(file), h)

\* A Limited account with an empty or unparseable reset time leaves that
\* status in no sweep, and only in a MarkAvailable.
UnparseableStays ==
  \A h \in SweepHandles :
    (/\ Entry(h).Status = QuotaStatusLimited
     /\ ~Parseable(Entry(h))
     /\ MapGet(Persisted(file'), h).Status # QuotaStatusLimited) =>
      /\ ~Sweeps
      /\ call'[Scanner].op = "MarkAvailable"
      /\ MapGet(Persisted(file'), h).Status = QuotaStatusAvailable

\* C37: when time keeps advancing and the supervisor keeps sweeping, every
\* account that is Limited with a parseable reset time is eventually
\* Available (no account stays Limited with a parseable reset time for
\* ever, unless the supervisor keeps marking it Limited anew), and a
\* Limited account with an empty or unparseable reset time is never made
\* Available by a sweep.
C37_SweepLiveness ==
  /\ \A h \in SweepHandles :
       []<>(\/ ~(Entry(h).Status = QuotaStatusLimited /\ Parseable(Entry(h)))
            \/ call[Scanner].op = "MarkLimited")
  /\ [][UnparseableStays]_vars

\* The second half of C37 on its own.
C37_UnparseableNeverSwept == [][UnparseableStays]_vars

\* The swap of process p has written the target: when p called restore,
\* the target held its fields from before the swap with the source's
\* oauthAccount.
SwapWrote(p) ==
  /\ BothParse(p)
  /\ ret[p].atRestore[TargetPath(p)].kind = "json"
  /\ LET old == ret[p].before[TargetPath(p)].fields
         src == ret[p].before[SourcePath(p)].fields
         mid == ret[p].atRestore[TargetPath(p)].fields
     IN /\ DOMAIN mid = DOMAIN old \cup {"oauthAccount"}
        /\ mid["oauthAccount"] = src["oauthAccount"]
        /\ \A n \in DOMAIN old \ {"oauthAccount"} : mid[n] = old[n]

\* The target document of p has the fields and values it had before p's
\* swap.
TargetAsBefore(p) ==
  /\ docs[TargetPath(p)].kind = "json"
  /\ DOMAIN docs[TargetPath(p)].fields =
       DOMAIN ret[p].before[TargetPath(p)].fields
  /\ \A n \in DOMAIN docs[TargetPath(p)].fields :
       docs[TargetPath(p)].fields[n] = ret[p].before[TargetPath(p)].fields[n]

\* C38: a swap followed by the restore of the value it returned, with no
\* other writer, leaves the target document with the fields and values it
\* had before the swap, also when the target had no oauthAccount.
C38_IdentityRoundTrip ==
  \A p \in Procs :
    (/\ RestoredOAuth(p) /\ OnlyEditor(p) /\ ret[p].err = ""
     /\ SwapWrote(p)) =>
      TargetAsBefore(p)

\* The same for targets that had an oauthAccount before the swap.
C38_RoundTripWithField ==
  \A p \in Procs :
    (/\ RestoredOAuth(p) /\ OnlyEditor(p) /\ ret[p].err = ""
     /\ SwapWrote(p)
     /\ "oauthAccount" \in DOMAIN ret[p].before[TargetPath(p)].fields) =>
      TargetAsBefore(p)

\* Process p runs Load, a mutation and Save on its own.
OnItsOwn(p) == call[p].op = "LoadThenSave" \/ call[p].fn.kind # "none"

\* C39: a caller that runs Load, a mutation and Save outside WithLock holds
\* no lock while it loads and mutates and holds it when it writes; its
\* write replaces the persisted accounts by exactly those of the state it
\* passes to Save, and so drops whatever another process persisted after
\* the Load.
C39_SaveReplacesAll ==
  /\ [](\A p \in Procs :
          (OnItsOwn(p) /\ pc[p] \in {"load", "lock"}) =>
            (lockHolder # p /\ ~deferred[p]))
  /\ [][\A p \in Procs :
          (OnItsOwn(p) /\ call[p].op = "Save" /\ Writes(p)) =>
            /\ lockHolder = p
            /\ Load(file').err = ""
            /\ Load(file').state.Accounts.kv = call[p].state.Accounts.kv
            /\ \A h \in DOMAIN Persisted(file).kv :
                 h \notin DOMAIN call[p].state.Accounts.kv =>
                   h \notin DOMAIN Persisted(file').kv]_vars

\* q marked "b" Limited and returned after p had loaded; p has since saved
\* its mutation of handle "a", and the file no longer has an entry for "b".
C39_Witness ==
  \E p \in Procs : \E q \in Procs \ {p} :
    /\ OnItsOwn(p) /\ call[p].op = "Save" /\ call[p].fn.kind = "set"
    /\ pc[p] = "return" /\ err[p] = ""
    /\ ret[q].op = "MarkLimited" /\ ret[q].err = "" /\ pc[q] = "idle"
    /\ file = MarshalState(Stamp(call[p].state))
    /\ "a" \in DOMAIN Persisted(file).kv
    /\ "b" \notin DOMAIN Persisted(file).kv

\* The handles of the persisted state.
PersistedHandles(f) == DOMAIN Persisted(f).kv

\* C40: no write of MarkLimited, of MarkAvailable or of a WithLock callback
\* (EnsureAccountsTracked, ClearExpired or an assignment, followed by
\* SaveUnlocked) removes a handle from the persisted state, and no step
\* deletes the quota file or leaves an existing document unparseable.
C40_HandlesNeverShrink ==
  /\ [][\A p \in Procs :
          (Writes(p) /\ call[p].op \in {"MarkLimited", "MarkAvailable",
                                        "WithLock"}) =>
            /\ lockHolder = p
            /\ PersistedHandles(file) \subseteq PersistedHandles(file')]_vars
  /\ [][file.kind # "missing" => file'.kind # "missing"]_vars
  /\ [][file.kind = "json" => file'.kind = "json"]_vars

\* A sweep inside WithLock has cleared the expired account "a" after the
\* other process marked a handle, and both handles are still persisted.
C40_Witness ==
  \E p \in Procs : \E q \in Procs \ {p} :
    /\ call[p].op = "WithLock" /\ call[p].fn.kind = "clearExpired"
    /\ pc[p] = "return" /\ err[p] = ""
    /\ ret[q].op \in {"MarkLimited", "MarkAvailable"} /\ ret[q].err = ""
    /\ file = MarshalState(st[p])
    /\ PersistedHandles(file) = {"a", "b"}
    /\ Persisted(file).kv["a"].Status = QuotaStatusAvailable
    /\ Persisted(file).kv["a"].LastUsed = "2026-02-18T08:00:00Z"

====
